---------------------------- MODULE Spec2Model ----------------------------
(***************************************************************************)
(* pico2-swd-riscv: the SWD wire engine (swd_protocol.c), the DAP layer    *)
(* (dap.c) and the RP2350 RISC-V Debug Module driver (rp2350.c), together  *)
(* with the device on the other end of the wire.                           *)
(*                                                                         *)
(* Every public call is one action.  A call is a function from a machine   *)
(* record m (session t, target device c, probe PIO p, the wire's behaviour *)
(* during the call) to the machine after the call, with the call's result  *)
(* in m.err / m.val.                                                       *)
(*                                                                         *)
(* 32-bit words are integers in two's complement (bit 31 is the sign), so  *)
(* that every register keeps the bit layout the code gives it.             *)
(***************************************************************************)
EXTENDS Integers, Sequences, FiniteSets, TLC

VARIABLES
    target,   \* swd_target_t: the session
    chip,     \* the RP2350 on the wire: DP, RISC-V APB-AP, DM, harts, SRAM
    probe,    \* the probe's PIO block: loaded programs, state machine
    last      \* the last API call: its arguments and what it returned

vars == <<target, chip, probe, last>>

-----------------------------------------------------------------------------
(* Bounds of the model *)

\* raw DP/AP accesses of one call among which the wire may misbehave once
MaxFaultAt == 21
\* the same, for calls of the Debug Module driver
MaxDmFaultAt == 10
\* the same, for calls of the DAP layer
MaxDapFaultAt == 4
\* the same, for calls that make one raw access
MaxDpFaultAt == 1
\* program images the PIO instruction memory holds
PioCapacity == 2
\* the same as MaxFaultAt, for rp2350_read_csr and rp2350_write_csr
MaxCsrFaultAt == 51
\* the same, for rp2350_trace, which is tried with a deviation at every
\* TraceStride-th raw access
MaxTraceFaultAt == 500
TraceStride == 47
\* instructions a trace is asked for, and callback invocations after which
\* the callback stops it
MaxTrace == 2
\* words of code an upload is given
MaxCode == 2
\* raw accesses of rp2350_upload_code at which the wire is tried
MaxUploadFaultAt == 24
\* raw accesses of rp2350_execute_code at which the wire is tried: every
\* ExecStride-th, up to MaxExecFaultAt
MaxExecFaultAt == 140
ExecStride == 4
\* calls of an alternating halt / resume sequence on one hart
MaxAlt == 6
\* raw accesses of a register access that ends with the cmderr clear, at
\* which the wire is tried
MaxCmdFaultAt == 16
\* raw accesses of a register call, from its first, that may be answered
\* FAULT while the hart selection is observed
MaxSelFaultAt == 6
\* raw accesses of rp2350_step between which the wire is tried: the two
\* DMCONTROL writes of a step without cached registers are accesses 103 to
\* 108
StepFaultFrom == 103
MaxStepFaultAt == 108
\* the sessions of one process: one more than the probe has slots
MaxSessions == 9
\* the sessions that fix their slot by configuration, and those that
\* disconnect
FixedSessions == {1}
ReleasingSessions == {1, 2}

(* Program constants *)

RP2350_NUM_HARTS == 2
DefaultRetryCount == 5
PowerPollLimit == 10
DmstatusPollLimit == 10
AbstractPollLimit == 100

DP_IDCODE == 0
DP_CTRL_STAT == 4
DP_SELECT == 8
DP_RDBUFF == 12
AP_CSW == 0
AP_TAR == 4
AP_DRW == 12
AP_RISCV == 10

DM_DMCONTROL == 64
DM_DMSTATUS == 68
DM_ABSTRACTCS == 88
DM_COMMAND == 92
DM_DATA0 == 16
DM_PROGBUF0 == 128
DM_PROGBUF1 == 132
DM_SBCS == 224
DM_SBADDRESS0 == 228
DM_SBDATA0 == 240

SWD_ACK_OK == 1
SWD_ACK_WAIT == 2
SWD_ACK_FAULT == 4
SWD_ACK_ERROR == 7

CSR_DCSR == 1968
CSR_DPC == 1969
DM_STATUS_OK == 67174401

Harts == 0 .. (RP2350_NUM_HARTS - 1)
\* the general purpose registers the model keeps, of x0..x31: x0 and s0
GPRS == {0, 8}
RegS0 == 8
\* sample data words
Words == {0, 1}
\* sample program counters: the two instructions of a program
PcWords == {0, 4}
\* sample SRAM word addresses
Addrs == {536870912}
\* the address code is uploaded to, and the SRAM the device model keeps:
\* the words of the longest upload
CodeBase == 536870912
Ram == {CodeBase + 4 * (i - 1) : i \in 1 .. MaxCode}
\* sample DPIDR values: none, version field only, the RP2350's
IdCodes == {0, 268435456, 1275146359}

\* 32-bit words are TLC integers in two's complement: bit 31 is the sign.
MinInt32 == -2147483647 - 1
\* CTRL/STAT words
PWR_REQ == 1342177280
CLEAR_BITS == 178
\* MEM-AP CSW words: 0xA2000002, 0, 1, 0x07FFFFC1
CSW_WORD32 == -1577058302
CSW_HS_RESET == 0
CSW_HS_ACTIVATE == 1
CSW_HS_CONFIG == 134217665
\* program buffer instructions
INSN_CSRR_S0 == 9331
INSN_CSRW_S0 == 266355
INSN_EBREAK == 1048691

-----------------------------------------------------------------------------
(* The wire's behaviour during one call: raw access number `at' (0: none)  *)
(* is answered as `kind' says, every other access with OK.                 *)

WireKinds == {"FAULT", "ACKERR", "ACKBAD", "PARITY", "WAIT1", "WAITALL"}

\* the answers tried on the long calls
FewKinds == {"FAULT", "WAITALL"}
OneKind == {"FAULT"}

NoFault == [at |-> 0, kind |-> "FAULT"]

Plans(n, kinds) == {NoFault} \cup [at : 1 .. n, kind : kinds]

\* The same, with the deviation at access `from' or later.
LatePlans(from, n, kinds) == {NoFault} \cup [at : from .. n, kind : kinds]

\* The 3-bit ACK of attempt `try' (0-based) of an access answered as `kind'.
AckOf(kind, try) ==
    CASE kind = "FAULT"   -> SWD_ACK_FAULT
      [] kind = "ACKERR"  -> SWD_ACK_ERROR
      [] kind = "ACKBAD"  -> 0
      [] kind = "ACK3"    -> 3
      [] kind = "ACK5"    -> 5
      [] kind = "ACK6"    -> 6
      [] kind = "WAIT1"   -> IF try = 0 THEN SWD_ACK_WAIT ELSE SWD_ACK_OK
      [] kind = "WAITALL" -> SWD_ACK_WAIT
      [] kind = "WAIT2F"  -> IF try < 2 THEN SWD_ACK_WAIT ELSE SWD_ACK_FAULT
      [] kind = "WAIT4"   -> IF try < 4 THEN SWD_ACK_WAIT ELSE SWD_ACK_OK
      [] OTHER            -> SWD_ACK_OK

\* The bits of the 33 of a read's data phase (32: the parity bit) that an
\* access answered as `kind' receives flipped.
Flips(kind) ==
    CASE kind = "PARITY"   -> {32}
      [] kind = "FLIP0"    -> {0}
      [] kind = "FLIP31"   -> {31}
      [] kind = "FLIP0_31" -> {0, 31}
      [] kind = "FLIP7_32" -> {7, 32}
      [] OTHER             -> {}

\* Registers of the device that every call writes before it reads them.
NewBus == [tar |-> 0, rdbuff |-> 0, data0 |-> 0, pb0 |-> 0,
           sbaddr |-> 0, sbdata |-> 0, hs |-> 0]

\* The reads made by the longest run of each polling loop during a call
\* (power-up acknowledge, ABSTRACTCS.busy, DMSTATUS), and the loops that
\* ran out of iterations.
NoPolls == [pwr |-> 0, abs |-> 0, dm |-> 0, exhausted |-> {}, att |-> <<>>]

\* Read n of a run of the polling loop `loop' was made, with result r.
Polled(r, loop, n) ==
    [r EXCEPT !.polls[loop] = IF n > @ THEN n ELSE @]

\* A run of the polling loop `loop' ends without the awaited condition.
Exhausted(m, loop) ==
    [m EXCEPT !.polls.exhausted = @ \cup {loop}, !.err = "TIMEOUT"]

\* env: what the device does during the call (see the actions).
Machine(t, c, p, plan, env) ==
    [t |-> t, c |-> c, p |-> p, b |-> NewBus, env |-> env,
     at |-> plan.at, kind |-> plan.kind, cur |-> "NONE",
     tx |-> 0, lr |-> FALSE, stale |-> FALSE, nullst |-> FALSE,
     offline |-> FALSE, gotfault |-> FALSE, rawret |-> "NONE",
     calls |-> 0, log |-> <<>>, polls |-> NoPolls, hd |-> {},
     posted |-> FALSE,
     err |-> "OK", val |-> 0]

DefaultEnv == [ackpower |-> TRUE, dmresponds |-> TRUE, honour |-> TRUE,
               stephalts |-> TRUE, idcode |-> 1275146359, trap |-> FALSE,
               rom |-> {}, busy |-> FALSE, selreset |-> FALSE,
               store |-> <<>>]

\* A call meets one deviation at most: of the wire, or of the device.
Scenarios(n, kinds, envs) ==
    [plan : Plans(n, kinds), env : {DefaultEnv}]
        \cup [plan : {NoFault}, env : envs]

Fail(m, e) == [m EXCEPT !.err = e]
Ok(m) == [m EXCEPT !.err = "OK"]

\* m.err is the error the running function is about to return.  The code's
\* `if (err != SWD_OK) return err;' after a call is written by the steps that
\* follow it: a step applied to a machine whose err is not OK is a step the
\* code does not reach, and leaves the machine as it is.
Returned(m) == m.err # "OK"

\* A call of one function of the driver by another, or by the application:
\* f names the function and a is the tuple of its arguments after target.
RECURSIVE Call(_, _, _)

\* A result struct initialised with value 0 keeps it on the error returns.
ZeroOnError(r) == IF r.err # "OK" THEN [r EXCEPT !.val = 0] ELSE r

-----------------------------------------------------------------------------
(* Bit fields of 32-bit words *)

Pow2(i) == 2 ^ i

Bit(v, i) == IF i = 31 THEN (IF v < 0 THEN 1 ELSE 0) ELSE (v \div Pow2(i)) % 2

Field(v, lo, width) == (v \div Pow2(lo)) % Pow2(width)

SetBit(v, i) ==
    IF Bit(v, i) = 1 THEN v
    ELSE IF i = 31 THEN v + MinInt32 ELSE v + Pow2(i)


-----------------------------------------------------------------------------
(* The device: Debug Port, RISC-V APB-AP, Debug Module, harts, SRAM.       *)
(* RISC-V Debug Specification 0.13 and ADI, as far as the driver uses them.*)

IsGpr(regno) == regno >= 4096 /\ regno < 4096 + 32

ReadCsr(hart, csr) ==
    IF csr = CSR_DPC THEN hart.dpc
    ELSE IF csr = CSR_DCSR THEN hart.dcsr
    ELSE 0

WriteCsr(hart, csr, v) ==
    IF csr = CSR_DPC THEN [hart EXCEPT !.dpc = v]
    ELSE IF csr = CSR_DCSR THEN [hart EXCEPT !.dcsr = v]
    ELSE hart

\* x0 is hard-wired to zero; registers the model does not keep read as 0.
ReadGpr(hart, n) == IF n \in GPRS /\ n # 0 THEN hart.gprs[n] ELSE 0

WriteGpr(hart, n, v) ==
    IF n \in GPRS /\ n # 0 THEN [hart EXCEPT !.gprs[n] = v] ELSE hart

\* One program buffer instruction followed by ebreak, on a halted hart.
ExecInsn(hart, insn) ==
    IF Field(insn, 0, 20) = INSN_CSRR_S0
    THEN WriteGpr(hart, RegS0, ReadCsr(hart, Field(insn, 20, 12)))
    ELSE IF Field(insn, 0, 20) = INSN_CSRW_S0
    THEN WriteCsr(hart, Field(insn, 20, 12), ReadGpr(hart, RegS0))
    ELSE hart

\* A write of COMMAND: an Access Register command with optional postexec.
DmCommand(m, v) ==
    LET h == m.c.hartsel
        regno == Field(v, 0, 16)
        hart == m.c.harts[h] IN
    IF m.c.cmderr # 0 \/ m.env.busy THEN m
    ELSE IF h \notin Harts THEN [m EXCEPT !.c.cmderr = 4]
    ELSE IF hart.running THEN [m EXCEPT !.c.cmderr = 4]
    ELSE IF Bit(v, 17) = 1 /\ ~IsGpr(regno) THEN [m EXCEPT !.c.cmderr = 2]
    ELSE
        LET m1 == IF Bit(v, 17) = 0 THEN m
                  ELSE IF Bit(v, 16) = 1
                  THEN [m EXCEPT !.c.harts[h] =
                            WriteGpr(hart, regno - 4096, m.b.data0)]
                  ELSE [m EXCEPT !.b.data0 = ReadGpr(hart, regno - 4096)]
        IN IF Bit(v, 18) = 1
           THEN [m1 EXCEPT !.c.harts[h] = ExecInsn(m1.c.harts[h], m1.b.pb0)]
           ELSE m1

\* A write of DMCONTROL: hart selection, halt / resume request, ndmreset.
\* m.log records each resume request with what the device holds when it
\* arrives: the hart, whether it runs, its dpc and the memory.
DmControl(m, v) ==
    LET h == Field(v, 16, 10)
        m0 == IF Bit(v, 30) = 1 /\ h \in Harts
              THEN [m EXCEPT !.log = Append(@, <<"resumereq", h,
                                                 m.c.harts[h].running,
                                                 m.c.harts[h].dpc, m.c.mem>>)]
              ELSE m
        m1 == [m0 EXCEPT !.c.hartsel = h, !.c.dmactive = (Bit(v, 0) = 1)]
        m2 == IF Bit(v, 1) = 1
              THEN [m1 EXCEPT !.c.harts = [x \in Harts |->
                        [m1.c.harts[x] EXCEPT !.running = TRUE,
                                              !.dpc = 0,
                                              !.dcsr = 0]]]
              ELSE m1
    IN IF h \notin Harts \/ ~m.env.honour THEN m2
       ELSE IF Bit(v, 31) = 1
       THEN [m2 EXCEPT !.c.harts[h].running = FALSE]
       ELSE IF Bit(v, 30) = 1 /\ ~m2.c.harts[h].running
       THEN IF Bit(m2.c.harts[h].dcsr, 2) = 1
            THEN \* single step: one 32-bit instruction retires (in a program
                 \* of two), the hart halts again
                 [m2 EXCEPT !.c.harts[h].dpc = (m2.c.harts[h].dpc + 4) % 8,
                            !.c.harts[h].running = ~m.env.stephalts]
            ELSE [m2 EXCEPT !.c.harts[h].running = TRUE]
       ELSE m2

DmWrite(m, addr, v) ==
    CASE addr = DM_DMCONTROL  -> DmControl(m, v)
      [] addr = DM_COMMAND    -> DmCommand(m, v)
      [] addr = DM_DATA0      -> [m EXCEPT !.b.data0 = v]
      [] addr = DM_PROGBUF0   -> [m EXCEPT !.b.pb0 = v]
      [] addr = DM_ABSTRACTCS ->
            IF Field(v, 8, 3) # 0 THEN [m EXCEPT !.c.cmderr = 0] ELSE m
      [] addr = DM_SBCS       -> [m EXCEPT !.c.sbreadonaddr = (Bit(v, 20) = 1)]
      [] addr = DM_SBADDRESS0 ->
            [m EXCEPT !.b.sbaddr = v,
                      !.b.sbdata = IF m.c.sbreadonaddr /\ v \in Ram
                                   THEN m.c.mem[v] ELSE m.b.sbdata]
      [] addr = DM_SBDATA0    ->
            IF m.b.sbaddr \in Ram \ m.env.rom
            THEN [m EXCEPT !.c.mem[m.b.sbaddr] = v] ELSE m
      [] OTHER -> m

DmRead(m, addr) ==
    CASE addr = DM_DMSTATUS ->
            IF m.c.hartsel \notin Harts THEN 0
            ELSE IF m.c.harts[m.c.hartsel].running THEN Pow2(11) ELSE Pow2(9)
      [] addr = DM_ABSTRACTCS -> m.c.cmderr * Pow2(8)
                                 + (IF m.env.busy THEN Pow2(12) ELSE 0)
      [] addr = DM_DATA0      -> m.b.data0
      [] addr = DM_SBCS       -> 32 * Pow2(5) + (IF m.c.sbreadonaddr
                                                 THEN Pow2(20) ELSE 0)
      [] addr = DM_SBDATA0    -> m.b.sbdata
      [] OTHER -> 0

\* The DM activation handshake on the APB-AP's bank 1 control word.
Handshake(hs, v) ==
    IF v = CSW_HS_RESET THEN 1
    ELSE IF v = CSW_HS_ACTIVATE /\ hs = 1 THEN 2
    ELSE IF v = CSW_HS_CONFIG /\ hs = 2 THEN 3
    ELSE hs

\* m.hd records the accesses of the call that address the selected hart
\* (a write of COMMAND, a read of DMSTATUS), each with the hart selection
\* and the dmactive bit the Debug Module holds when it arrives.
HartAccess(m, addr) ==
    IF addr \in {DM_COMMAND, DM_DMSTATUS}
    THEN [m EXCEPT !.hd = @ \cup {[reg |-> addr, hartsel |-> m.c.hartsel,
                                   dmactive |-> m.c.dmactive]}]
    ELSE m

\* An AP write that was acknowledged: A[3:2] of reg in the selected bank.
ApWrite(m, reg, v) ==
    LET a == Field(reg, 2, 2) IN
    IF m.c.sel.apsel # AP_RISCV THEN m
    ELSE IF m.c.sel.bank = 0
    THEN IF a = 1 THEN [m EXCEPT !.b.tar = v]
         ELSE IF a = 3 THEN DmWrite(HartAccess(m, m.b.tar), m.b.tar, v)
         ELSE m
    ELSE IF m.c.sel.bank = 1 /\ a = 0
    THEN [m EXCEPT !.b.hs = Handshake(m.b.hs, v)]
    ELSE m

\* An AP read is posted: the word read arrives with the next RDBUFF read.
ApRead(m, reg) ==
    LET a == Field(reg, 2, 2)
        v == IF m.c.sel.apsel # AP_RISCV THEN 0
             ELSE IF m.c.sel.bank = 0
             THEN (IF a = 3 THEN DmRead(m, m.b.tar)
                   ELSE IF a = 1 THEN m.b.tar ELSE 0)
             ELSE IF m.c.sel.bank = 1 /\ a = 0
             THEN (IF m.b.hs = 3 /\ m.env.dmresponds THEN DM_STATUS_OK ELSE 0)
             ELSE 0
        m1 == IF m.c.sel.apsel = AP_RISCV /\ m.c.sel.bank = 0 /\ a = 3
              THEN HartAccess(m, m.b.tar) ELSE m
    IN [m1 EXCEPT !.val = m.b.rdbuff, !.b.rdbuff = v]

DpWrite(m, reg, v) ==
    LET a == Field(reg, 2, 2) IN
    IF a = 1 THEN [m EXCEPT !.c.ctrlstat = v]
    ELSE IF a = 2
    THEN [m EXCEPT !.c.sel = [apsel |-> Field(v, 12, 4), bank |-> Field(v, 4, 4)]]
    ELSE m

DpRead(m, reg) ==
    LET a == Field(reg, 2, 2)
        cs == m.c.ctrlstat
        ack == IF ~m.env.ackpower THEN cs
               ELSE LET c1 == IF Bit(cs, 28) = 1 THEN SetBit(cs, 29) ELSE cs
                    IN IF Bit(cs, 30) = 1 THEN SetBit(c1, 31) ELSE c1
    IN [m EXCEPT !.val = IF a = 0 THEN m.env.idcode
                         ELSE IF a = 1 THEN ack
                         ELSE IF a = 3 THEN m.b.rdbuff
                         ELSE 0]

-----------------------------------------------------------------------------
(* swd_protocol.c: the wire engine *)

swd_ack_to_error(ack) ==
    CASE ack = 1 -> "OK"
      [] ack = 2 -> "WAIT"
      [] ack = 4 -> "FAULT"
      [] OTHER   -> "PROTOCOL"

B2N(b) == IF b THEN 1 ELSE 0

\* make_swd_request, were the parity bit left out.
make_swd_request_noparity(APnDP, RnW, addr) ==
    1 + B2N(APnDP) * 2 + B2N(RnW) * 4 + Bit(addr, 2) * 8 + Bit(addr, 3) * 16
    + 128

make_swd_request(APnDP, RnW, addr) ==
    LET a2 == Bit(addr, 2)
        a3 == Bit(addr, 3)
        parity == (B2N(APnDP) + B2N(RnW) + a2 + a3) % 2
    IN 1 + B2N(APnDP) * 2 + B2N(RnW) * 4 + a2 * 8 + a3 * 16 + parity * 32
       + 0 * 64 + 1 * 128

calculate_parity(value) ==
    LET RECURSIVE popcount(_)
        popcount(i) == IF i > 31 THEN 0 ELSE Bit(value, i) + popcount(i + 1)
    IN popcount(0) % 2

\* The word v with bit i inverted.
FlipBit(v, i) ==
    IF i = 31 THEN (IF v < 0 THEN v - MinInt32 ELSE v + MinInt32)
    ELSE IF Bit(v, i) = 1 THEN v - Pow2(i) ELSE v + Pow2(i)

\* The word received when the device sends v and the wire flips `bits'.
RECURSIVE Received(_, _)
Received(v, bits) ==
    IF bits \ {32} = {} THEN v
    ELSE LET i == CHOOSE b \in bits \ {32} : TRUE
         IN Received(FlipBit(v, i), bits \ {i})

\* The parity bit received with it: the device sends the parity of v.
ReceivedParity(v, bits) ==
    IF 32 \in bits THEN 1 - calculate_parity(v) ELSE calculate_parity(v)

\* The data phase of a read, were the parity bit not checked.
swd_io_raw_data_unchecked(r, m, hasdst) ==
    LET bits == Flips(m.cur)
        value == Received(r.val, bits)
        rl == IF bits = {} THEN r
              ELSE [r EXCEPT !.log = Append(@, <<"data", value,
                                                 ReceivedParity(r.val, bits)>>)]
    IN IF hasdst THEN Ok([rl EXCEPT !.val = value])
       ELSE Ok([rl EXCEPT !.val = m.val, !.nullst = TRUE])

\* swd_io_raw: the data phase of a read that was acknowledged; r.val is
\* the word the device sends and m the machine before the transaction.
\* m.log records the 33 bits received when the wire flipped some.  With
\* none flipped the parity received is the parity of the word received.
swd_io_raw_data(r, m, hasdst) ==
    LET bits == Flips(m.cur)
        value == Received(r.val, bits)
        rl == IF bits = {} THEN r
              ELSE [r EXCEPT !.log = Append(@, <<"data", value,
                                                 ReceivedParity(r.val, bits)>>)]
    IN IF bits # {} /\ calculate_parity(value) # ReceivedParity(r.val, bits)
       THEN Fail([rl EXCEPT !.val = m.val], "PARITY")
       ELSE IF hasdst THEN Ok([rl EXCEPT !.val = value])
       ELSE Ok([rl EXCEPT !.val = m.val, !.nullst = TRUE])

\* swd_line_reset: more than 50 clocks with the line high.
swd_line_reset(m) == [m EXCEPT !.lr = TRUE]

\* swd_io_raw once the ACK is in; m1 is the machine with the transaction
\* counted.  m.log records an ACK that is none of OK, WAIT and FAULT, and
\* whether the line was reset when the function returns.
\* m.posted tells whether the call has written an AP register and has not
\* read RDBUFF since: the write is posted, RDBUFF flushes it.
Posting(m, isAP, reg, write) ==
    IF isAP /\ write THEN [m EXCEPT !.posted = TRUE]
    ELSE IF ~isAP /\ ~write /\ reg = DP_RDBUFF THEN [m EXCEPT !.posted = FALSE]
    ELSE m

swd_io_raw_ack(m0, ack, isAP, reg, value, write, hasdst) ==
    LET m1 == IF ack = SWD_ACK_OK THEN Posting(m0, isAP, reg, write) ELSE m0 IN
    IF ack = SWD_ACK_OK
    THEN IF write
         THEN Ok(IF isAP THEN ApWrite(m1, reg, value)
                 ELSE DpWrite(m1, reg, value))
         ELSE swd_io_raw_data(IF isAP THEN ApRead(m1, reg)
                              ELSE DpRead(m1, reg),
                              m1, hasdst)
    ELSE IF ack = SWD_ACK_WAIT \/ ack = SWD_ACK_FAULT
    THEN Fail(m1, swd_ack_to_error(ack))
    ELSE IF ack = SWD_ACK_ERROR
    THEN Fail([swd_line_reset(m1) EXCEPT !.log = Append(@, <<"ack", ack, TRUE>>)],
              "PROTOCOL")
    ELSE Fail([m1 EXCEPT !.log = Append(@, <<"ack", ack, m1.lr>>)], "PROTOCOL")

\* The transaction is counted, and noted if it goes out while the session
\* is not connected or is answered FAULT.
swd_io_raw_count(m, ack) ==
    [m EXCEPT !.tx = @ + 1,
              !.polls.att = Append(@, ack),
              !.offline = @ \/ ~m.t.connected,
              !.gotfault = @ \/ ack = SWD_ACK_FAULT]

\* m.log records a read that starts with no place for the word read.
NullDestination(m, request, write, hasdst) ==
    IF ~write /\ ~hasdst
    THEN [m EXCEPT !.log = Append(@, <<"nulldst", request>>)]
    ELSE m

\* One SWD transaction; try is the attempt's number within its access and
\* hasdst tells whether the caller passed a place for the word read.
swd_io_raw(m, request, value, write, hasdst, try) ==
    IF ~m.t.pio.initialized THEN Fail(m, "INVALID_STATE")
    ELSE swd_io_raw_ack(
             swd_io_raw_count(NullDestination(m, request, write, hasdst),
                              IF m.cur = "NONE" THEN SWD_ACK_OK
                              ELSE AckOf(m.cur, try)),
             IF m.cur = "NONE" THEN SWD_ACK_OK ELSE AckOf(m.cur, try),
             Bit(request, 1) = 1, Field(request, 3, 2) * 4,
             value, write, hasdst)

\* The wire's answer to the access that starts now.
BeginAccess(m) ==
    [m EXCEPT !.polls.att = <<>>,
              !.cur = IF m.at = 1 THEN m.kind ELSE "NONE",
              !.at = IF m.at > 0 THEN m.at - 1 ELSE 0,
              !.err = "WAIT"]

RECURSIVE swd_retry(_, _, _, _, _, _)
\* The retry loop, were every failed attempt repeated.
swd_retry_next_any(r, request, value, write, hasdst, retry) ==
    IF r.err = "OK" THEN r
    ELSE swd_retry(r, request, value, write, hasdst, retry + 1)

\* The retry loop after an attempt: it ends unless the attempt was answered
\* WAIT.
swd_retry_next(r, request, value, write, hasdst, retry) ==
    IF r.err # "WAIT" THEN r
    ELSE swd_retry(r, request, value, write, hasdst, retry + 1)

\* The retry loop, were an exhausted budget reported as a timeout.
swd_retry_timeout(m, request, value, write, hasdst, retry) ==
    IF retry >= m.t.dap.retry_count
    THEN [m EXCEPT !.rawret = IF retry > 0 THEN "TIMEOUT" ELSE @,
                   !.err = IF retry > 0 THEN "TIMEOUT" ELSE @]
    ELSE swd_retry_next(swd_io_raw(m, request, value, write, hasdst, retry),
                        request, value, write, hasdst, retry)

swd_retry(m, request, value, write, hasdst, retry) ==
    IF retry >= m.t.dap.retry_count
    THEN \* every attempt was answered WAIT: what the access returns
         [m EXCEPT !.rawret = IF retry > 0 THEN m.err ELSE @]
    ELSE swd_retry_next(swd_io_raw(m, request, value, write, hasdst, retry),
                        request, value, write, hasdst, retry)

swd_read_dp_raw(m, reg) ==
    swd_retry(BeginAccess(m), make_swd_request(FALSE, TRUE, reg), 0,
              FALSE, TRUE, 0)

swd_write_dp_raw(m, reg, value) ==
    swd_retry(BeginAccess(m), make_swd_request(FALSE, FALSE, reg), value,
              TRUE, TRUE, 0)

swd_read_ap_raw(m, reg, hasdst) ==
    swd_retry(BeginAccess(m), make_swd_request(TRUE, TRUE, reg), 0,
              FALSE, hasdst, 0)

swd_write_ap_raw(m, reg, value) ==
    swd_retry(BeginAccess(m), make_swd_request(TRUE, FALSE, reg), value,
              TRUE, TRUE, 0)

init_pio(m) ==
    IF m.p.programs >= PioCapacity THEN Fail(m, "RESOURCE_BUSY")
    ELSE Ok([m EXCEPT !.p.programs = @ + 1,
                      !.p.sm_enabled = TRUE,
                      !.t.pio.initialized = TRUE])

-----------------------------------------------------------------------------
(* dap.c *)

make_dp_select_rp2350(apsel, bank, ctrlsel) ==
    (apsel % 16) * 4096 + 13 * 256 + (bank % 16) * 16 + B2N(ctrlsel)

select_ap_bank(m, apsel, bank) ==
    IF m.t.dap.current_apsel = apsel /\ m.t.dap.current_bank = bank
       /\ m.t.dap.ctrlsel
    THEN \* the cache is consulted: note whether it still tells the truth
         Ok([m EXCEPT !.stale = @ \/ ~( m.c.sel.apsel = apsel
                                       /\ m.c.sel.bank = bank)])
    ELSE LET r == Call(m, "swd_write_dp_raw",
                       <<DP_SELECT, make_dp_select_rp2350(apsel, bank, TRUE)>>)
         IN IF Returned(r) THEN r
            ELSE [r EXCEPT !.t.dap.current_apsel = apsel,
                           !.t.dap.current_bank = bank,
                           !.t.dap.ctrlsel = TRUE]

RECURSIVE power_poll(_, _)
power_poll(m, i) ==
    IF i >= PowerPollLimit THEN Exhausted(m, "pwr")
    ELSE LET r == Polled(Call(m, "swd_read_dp_raw", <<DP_CTRL_STAT>>),
                         "pwr", i + 1)
         IN IF Returned(r) THEN r
            ELSE IF Bit(r.val, 29) = 1 /\ Bit(r.val, 31) = 1
            THEN Ok([r EXCEPT !.t.dap.powered = TRUE])
            ELSE power_poll(r, i + 1)

dap_power_up(m) ==
    IF m.t.dap.powered THEN Ok(m)
    ELSE LET r1 == Call(m, "swd_write_dp_raw", <<DP_CTRL_STAT, 0>>)
             r2 == Call(r1, "swd_write_dp_raw", <<DP_CTRL_STAT, PWR_REQ>>)
         IN IF Returned(r2) THEN r2 ELSE power_poll(r2, 0)

dap_power_down(m) ==
    IF ~m.t.dap.powered THEN Ok(m)
    ELSE LET r == Call(m, "swd_write_dp_raw", <<DP_CTRL_STAT, 0>>)
         IN IF Returned(r) THEN r ELSE [r EXCEPT !.t.dap.powered = FALSE]

dap_read_dp(m, reg) == Call([m EXCEPT !.val = 0], "swd_read_dp_raw", <<reg>>)

dap_write_dp(m, reg, value) == Call(m, "swd_write_dp_raw", <<reg, value>>)

dap_read_ap(m, apsel, reg) ==
    IF ~m.t.connected THEN Fail([m EXCEPT !.val = 0], "NOT_CONNECTED")
    ELSE LET r1 == Call([m EXCEPT !.val = 0], "select_ap_bank",
                        <<apsel, Field(reg, 4, 4)>>)
             r2 == Call(r1, "swd_read_ap_raw", <<reg, TRUE>>)
         IN Call(r2, "swd_read_dp_raw", <<DP_RDBUFF>>)

dap_write_ap(m, apsel, reg, value) ==
    IF ~m.t.connected THEN Fail(m, "NOT_CONNECTED")
    ELSE LET r1 == Call(m, "select_ap_bank", <<apsel, Field(reg, 4, 4)>>)
         IN Call(r1, "swd_write_ap_raw", <<reg, value>>)

dap_read_mem32(m, addr) ==
    IF ~m.t.connected THEN Fail([m EXCEPT !.val = 0], "NOT_CONNECTED")
    ELSE IF addr % 4 # 0 THEN Fail([m EXCEPT !.val = 0], "ALIGNMENT")
    ELSE LET r1 == Call([m EXCEPT !.val = 0], "dap_write_ap",
                        <<AP_RISCV, AP_TAR, addr>>)
             r2 == Call(r1, "swd_read_ap_raw", <<AP_DRW, TRUE>>)
         IN Call(r2, "swd_read_dp_raw", <<DP_RDBUFF>>)

dap_write_mem32(m, addr, value) ==
    IF ~m.t.connected THEN Fail(m, "NOT_CONNECTED")
    ELSE IF addr % 4 # 0 THEN Fail(m, "ALIGNMENT")
    ELSE LET r1 == Call(m, "dap_write_ap", <<AP_RISCV, AP_TAR, addr>>)
             r2 == Call(r1, "dap_write_ap", <<AP_RISCV, AP_DRW, value>>)
         IN Call(r2, "dap_read_dp", <<DP_RDBUFF>>)

dap_clear_errors(m) == Call(m, "swd_write_dp_raw", <<DP_CTRL_STAT, CLEAR_BITS>>)

-----------------------------------------------------------------------------
(* swd_protocol.c: connection management *)

\* DP SELECT after a reset of the Debug Port.
NewSelect == [apsel |-> 0, bank |-> 0]

\* The JTAG-to-dormant and dormant-to-SWD sequences and the idle clocks.
\* On a device that env.selreset describes, the line reset returns DP SELECT
\* to its reset value.
Handshake_dormant_to_swd(m) ==
    [m EXCEPT !.lr = TRUE,
              !.c.sel = IF m.env.selreset THEN NewSelect ELSE @]

\* m.log records the result of the IDCODE read.
swd_connect(m) ==
    IF m.t.connected THEN Fail(m, "INVALID_STATE")
    ELSE LET r0 == Call(m, "init_pio", <<>>)
         IN IF Returned(r0) THEN r0
            ELSE LET rd == Call([Handshake_dormant_to_swd(r0) EXCEPT !.val = 0],
                                "swd_read_dp_raw", <<DP_IDCODE>>)
                     r1 == [rd EXCEPT !.log = Append(@, <<"idcode", rd.err,
                                                         rd.val>>)]
                 IN IF Returned(r1) THEN r1
                    ELSE IF r1.val % 268435456 = 0 THEN Fail(r1, "PROTOCOL")
                    ELSE LET r2 == Call([r1 EXCEPT !.t.idcode = r1.val],
                                        "dap_power_up", <<>>)
                         IN IF Returned(r2) THEN r2
                            ELSE Ok([r2 EXCEPT !.t.connected = TRUE])

\* The result of dap_power_down is dropped.
swd_disconnect(m) ==
    IF ~m.t.connected THEN Ok(m)
    ELSE LET r0 == Call(m, "dap_power_down", <<>>)
             r1 == IF r0.t.pio.initialized
                   THEN [r0 EXCEPT !.p.sm_enabled = FALSE,
                                   !.p.programs = @ - 1,
                                   !.t.pio.initialized = FALSE]
                   ELSE r0
         IN Ok([r1 EXCEPT !.t.connected = FALSE,
                          !.t.rp2350.initialized = FALSE,
                          !.t.dap.powered = FALSE])

-----------------------------------------------------------------------------
(* rp2350.c: Debug Module helpers and initialization *)

validate_hart_id(hart_id) == hart_id < RP2350_NUM_HARTS

\* make_dmcontrol without the hartsel field: every command selects hart 0.
make_dmcontrol_nohartsel(hart_id, haltreq, resumereq, ndmreset) ==
    LET d1 == IF haltreq THEN SetBit(1, 31) ELSE 1
        d2 == IF resumereq THEN SetBit(d1, 30) ELSE d1
    IN IF ndmreset THEN SetBit(d2, 1) ELSE d2

make_dmcontrol(hart_id, haltreq, resumereq, ndmreset) ==
    LET d0 == 1 + hart_id * Pow2(16)
        d1 == IF haltreq THEN SetBit(d0, 31) ELSE d0
        d2 == IF resumereq THEN SetBit(d1, 30) ELSE d1
    IN IF ndmreset THEN SetBit(d2, 1) ELSE d2

\* One pass of the loop of wait_abstract_command: again tells whether the
\* loop goes on.  The result of the write that clears cmderr is dropped.
wait_abstract_pass(m, i) ==
    LET r == Polled(Call(m, "dap_read_mem32", <<DM_ABSTRACTCS>>), "abs", i + 1)
    IN IF Returned(r) THEN [m |-> r, again |-> FALSE]
       ELSE IF Bit(r.val, 12) = 0
       THEN IF Field(r.val, 8, 3) # 0
            THEN [m |-> Fail(Call(r, "dap_write_mem32", <<DM_ABSTRACTCS, 1792>>),
                             "ABSTRACT_CMD"),
                  again |-> FALSE]
            ELSE [m |-> Ok(r), again |-> FALSE]
       ELSE [m |-> r, again |-> TRUE]

\* The passes lo .. hi - 1 of the loop, in order, halved to keep the
\* evaluation shallow.
RECURSIVE wait_abstract_poll(_, _, _)
wait_abstract_poll(m, lo, hi) ==
    IF hi - lo = 1 THEN wait_abstract_pass(m, lo)
    ELSE LET mid == (lo + hi) \div 2
             a == wait_abstract_poll(m, lo, mid)
         IN IF a.again THEN wait_abstract_poll(a.m, mid, hi) ELSE a

wait_abstract_command(m) ==
    LET a == wait_abstract_poll(m, 0, AbstractPollLimit)
    IN IF a.again THEN Exhausted(a.m, "abs") ELSE a.m

\* The DMSTATUS poll, were it to go on for one more read.
RECURSIVE poll_dmstatus_loop_more(_, _, _, _)
poll_dmstatus_loop_more(m, hart_id, wait_for_halted, i) ==
    IF i > DmstatusPollLimit THEN Exhausted(m, "dm")
    ELSE LET r == Polled(Call(m, "dap_read_mem32", <<DM_DMSTATUS>>),
                         "dm", i + 1)
         IN IF Returned(r) THEN r
            ELSE IF wait_for_halted /\ Bit(r.val, 9) = 1
            THEN Ok([r EXCEPT !.t.rp2350.harts[hart_id].halted = TRUE,
                              !.t.rp2350.harts[hart_id].halt_state_known = TRUE])
            ELSE IF ~wait_for_halted /\ Bit(r.val, 11) = 1
            THEN Ok([r EXCEPT !.t.rp2350.harts[hart_id].halted = FALSE,
                              !.t.rp2350.harts[hart_id].halt_state_known = TRUE])
            ELSE poll_dmstatus_loop_more(r, hart_id, wait_for_halted, i + 1)

RECURSIVE poll_dmstatus_loop(_, _, _, _)
poll_dmstatus_loop(m, hart_id, wait_for_halted, i) ==
    IF i >= DmstatusPollLimit THEN Exhausted(m, "dm")
    ELSE LET r == Polled(Call(m, "dap_read_mem32", <<DM_DMSTATUS>>),
                         "dm", i + 1)
         IN IF Returned(r) THEN r
            ELSE IF wait_for_halted /\ Bit(r.val, 9) = 1
            THEN Ok([r EXCEPT !.t.rp2350.harts[hart_id].halted = TRUE,
                              !.t.rp2350.harts[hart_id].halt_state_known = TRUE])
            ELSE IF ~wait_for_halted /\ Bit(r.val, 11) = 1
            THEN Ok([r EXCEPT !.t.rp2350.harts[hart_id].halted = FALSE,
                              !.t.rp2350.harts[hart_id].halt_state_known = TRUE])
            ELSE poll_dmstatus_loop(r, hart_id, wait_for_halted, i + 1)

poll_dmstatus_halted(m, hart_id, wait_for_halted) ==
    poll_dmstatus_loop(m, hart_id, wait_for_halted, 0)

\* The result of the write that clears sberror is dropped.
rp2350_init_sba(m) ==
    LET r == Call(m, "dap_read_mem32", <<DM_SBCS>>)
    IN IF Returned(r) THEN r
       ELSE IF Field(r.val, 5, 7) = 0 THEN Fail(r, "INVALID_STATE")
       ELSE LET r1 == IF Field(r.val, 12, 3) # 0
                      THEN Call(r, "dap_write_mem32",
                                <<DM_SBCS,
                                  r.val + (7 - Field(r.val, 12, 3)) * Pow2(12)>>)
                      ELSE r
                r2 == Call(Ok(r1), "dap_write_mem32",
                           <<DM_SBCS, 2 * Pow2(17) + Pow2(20)>>)
            IN IF Returned(r2) THEN r2
               ELSE [r2 EXCEPT !.t.rp2350.sba_initialized = TRUE]

\* The three handshake words, each followed by an RDBUFF read whose result
\* is dropped; k is the index of the word.
HandshakeWords == <<CSW_HS_RESET, CSW_HS_ACTIVATE, CSW_HS_CONFIG>>

RECURSIVE init_handshake(_, _)
init_handshake(m, k) ==
    IF k > Len(HandshakeWords) THEN Ok(m)
    ELSE LET r == Call(m, "dap_write_ap", <<AP_RISCV, AP_CSW, HandshakeWords[k]>>)
         IN IF Returned(r) THEN r
            ELSE init_handshake(Ok(Call(r, "dap_read_dp", <<DP_RDBUFF>>)), k + 1)

\* rp2350_init from the verification of the DM status on.  The result of
\* the posted status read is dropped, and the read stores through a null
\* pointer: the store is dropped, or the probe traps.  The result of
\* rp2350_init_sba is dropped.
init_verify(m) ==
    LET r0 == Call(m, "swd_read_ap_raw", <<AP_CSW, FALSE>>)
    IN IF r0.nullst /\ r0.env.trap THEN Fail(r0, "CRASH")
       ELSE
       LET r1 == Call(Ok(r0), "dap_read_dp", <<DP_RDBUFF>>)
       IN IF Returned(r1) THEN r1
          ELSE IF r1.val # DM_STATUS_OK THEN Fail(r1, "INVALID_STATE")
          ELSE LET r2 == Call(r1, "dap_write_dp",
                              <<DP_SELECT,
                                make_dp_select_rp2350(AP_RISCV, 0, TRUE)>>)
               IN IF Returned(r2) THEN r2
                  ELSE Ok(Call([r2 EXCEPT
                                  !.t.rp2350.initialized = TRUE,
                                  !.t.rp2350.harts = [h \in Harts |->
                                      [r2.t.rp2350.harts[h] EXCEPT
                                          !.halt_state_known = FALSE,
                                          !.halted = FALSE,
                                          !.cache_valid = FALSE]]],
                               "rp2350_init_sba", <<>>))

rp2350_init(m) ==
    IF ~m.t.connected THEN Fail(m, "NOT_CONNECTED")
    ELSE IF m.t.rp2350.initialized THEN Ok(m)
    ELSE
    LET r1 == Call(m, "dap_write_dp",
                   <<DP_SELECT, make_dp_select_rp2350(AP_RISCV, 0, TRUE)>>)
        r2 == Call(r1, "dap_write_ap", <<AP_RISCV, AP_CSW, CSW_WORD32>>)
        r3 == Call(r2, "dap_write_ap", <<AP_RISCV, AP_TAR, DM_DMCONTROL>>)
        r4 == Call(r3, "dap_write_dp",
                   <<DP_SELECT, make_dp_select_rp2350(AP_RISCV, 1, TRUE)>>)
    IN IF Returned(r4) THEN r4
       ELSE LET r5 == init_handshake(r4, 1)
            IN IF Returned(r5) THEN r5 ELSE init_verify(r5)

execute_progbuf_simple(m, hart_id, insn) ==
    LET r1 == Call(m, "dap_write_mem32",
                   <<DM_DMCONTROL, make_dmcontrol(hart_id, FALSE, FALSE, FALSE)>>)
        r2 == Call(r1, "dap_write_mem32", <<DM_PROGBUF0, insn>>)
        r3 == Call(r2, "dap_write_mem32", <<DM_PROGBUF1, INSN_EBREAK>>)
        r4 == Call(r3, "dap_write_mem32", <<DM_COMMAND, Pow2(18)>>)
    IN Call(r4, "wait_abstract_command", <<>>)

rp2350_execute_progbuf(m, hart_id, insn) ==
    IF ~m.t.rp2350.initialized THEN Fail(m, "NOT_INITIALIZED")
    ELSE IF ~validate_hart_id(hart_id) THEN Fail(m, "INVALID_PARAM")
    ELSE Call(m, "execute_progbuf_simple", <<hart_id, insn>>)

-----------------------------------------------------------------------------
(* rp2350.c: register access *)

AbstractRead(reg_num) == (4096 + reg_num) + Pow2(17) + 2 * Pow2(20)

\* An Access Register write command that leaves out the transfer bit.
AbstractWrite_notransfer(reg_num) ==
    (4096 + reg_num) + Pow2(16) + 2 * Pow2(20)

AbstractWrite(reg_num) == (4096 + reg_num) + Pow2(16) + Pow2(17) + 2 * Pow2(20)

rp2350_read_reg(m, hart_id, reg_num) ==
    IF ~m.t.rp2350.initialized
    THEN Fail([m EXCEPT !.val = 0], "NOT_INITIALIZED")
    ELSE IF ~validate_hart_id(hart_id)
    THEN Fail([m EXCEPT !.val = 0], "INVALID_PARAM")
    ELSE IF ~m.t.rp2350.harts[hart_id].halted
    THEN Fail([m EXCEPT !.val = 0], "NOT_HALTED")
    ELSE IF reg_num >= 32 THEN Fail([m EXCEPT !.val = 0], "INVALID_PARAM")
    ELSE IF m.t.rp2350.cache_enabled /\ m.t.rp2350.harts[hart_id].cache_valid
    THEN Ok([m EXCEPT !.val = m.t.rp2350.harts[hart_id].cached_gprs[reg_num]])
    ELSE
    LET r1 == Call([m EXCEPT !.val = 0], "dap_write_mem32",
                   <<DM_DMCONTROL, make_dmcontrol(hart_id, FALSE, FALSE, FALSE)>>)
        r2 == Call(r1, "dap_write_mem32", <<DM_COMMAND, AbstractRead(reg_num)>>)
        r3 == Call(r2, "wait_abstract_command", <<>>)
        r4 == Call(ZeroOnError(r3), "dap_read_mem32", <<DM_DATA0>>)
    IN IF ~Returned(r4) /\ r4.t.rp2350.cache_enabled
       THEN [r4 EXCEPT !.t.rp2350.harts[hart_id].cached_gprs[reg_num] = r4.val]
       ELSE r4

\* rp2350_write_reg without the halted check.
rp2350_write_reg_ungated(m, hart_id, reg_num, value) ==
    IF ~m.t.rp2350.initialized THEN Fail(m, "NOT_INITIALIZED")
    ELSE IF ~validate_hart_id(hart_id) THEN Fail(m, "INVALID_PARAM")
    ELSE IF reg_num >= 32 THEN Fail(m, "INVALID_PARAM")
    ELSE
    LET r1 == Call(m, "dap_write_mem32",
                   <<DM_DMCONTROL, make_dmcontrol(hart_id, FALSE, FALSE, FALSE)>>)
        r2 == Call(r1, "dap_write_mem32", <<DM_DATA0, value>>)
        r3 == Call(r2, "dap_write_mem32",
                   <<DM_COMMAND,
                     (4096 + reg_num) + Pow2(16) + Pow2(17) + 2 * Pow2(20)>>)
        r4 == Call(r3, "wait_abstract_command", <<>>)
    IN IF ~Returned(r4) /\ r4.t.rp2350.cache_enabled
       THEN [r4 EXCEPT !.t.rp2350.harts[hart_id].cached_gprs[reg_num] = value]
       ELSE r4

rp2350_write_reg(m, hart_id, reg_num, value) ==
    IF ~m.t.rp2350.initialized THEN Fail(m, "NOT_INITIALIZED")
    ELSE IF ~validate_hart_id(hart_id) THEN Fail(m, "INVALID_PARAM")
    ELSE IF ~m.t.rp2350.harts[hart_id].halted THEN Fail(m, "NOT_HALTED")
    ELSE IF reg_num >= 32 THEN Fail(m, "INVALID_PARAM")
    ELSE
    LET r1 == Call(m, "dap_write_mem32",
                   <<DM_DMCONTROL, make_dmcontrol(hart_id, FALSE, FALSE, FALSE)>>)
        r2 == Call(r1, "dap_write_mem32", <<DM_DATA0, value>>)
        r3 == Call(r2, "dap_write_mem32", <<DM_COMMAND, AbstractWrite(reg_num)>>)
        r4 == Call(r3, "wait_abstract_command", <<>>)
    IN IF ~Returned(r4) /\ r4.t.rp2350.cache_enabled
       THEN [r4 EXCEPT !.t.rp2350.harts[hart_id].cached_gprs[reg_num] = value]
       ELSE r4

\* The registers the loop of rp2350_read_all_regs visits, in its order.
RegOrder == <<0, 8>>

RECURSIVE read_all_loop(_, _, _)
read_all_loop(m, hart_id, k) ==
    IF k > Len(RegOrder)
    THEN IF m.t.rp2350.cache_enabled
         THEN Ok([m EXCEPT !.t.rp2350.harts[hart_id].cache_valid = TRUE])
         ELSE Ok(m)
    ELSE LET r == Call(m, "rp2350_read_reg", <<hart_id, RegOrder[k]>>)
         IN IF Returned(r) THEN r ELSE read_all_loop(r, hart_id, k + 1)

rp2350_read_all_regs(m, hart_id) ==
    IF ~validate_hart_id(hart_id) THEN Fail(m, "INVALID_PARAM")
    ELSE read_all_loop(m, hart_id, 1)

\* s0 is written back whatever the steps before it returned, and the result
\* of the write-back is dropped.
rp2350_read_csr(m, hart_id, csr_addr) ==
    IF ~m.t.rp2350.initialized
    THEN Fail([m EXCEPT !.val = 0], "NOT_INITIALIZED")
    ELSE IF ~validate_hart_id(hart_id)
    THEN Fail([m EXCEPT !.val = 0], "INVALID_PARAM")
    ELSE IF ~m.t.rp2350.harts[hart_id].halted
    THEN Fail([m EXCEPT !.val = 0], "NOT_HALTED")
    ELSE
    LET saved_s0 == Call(m, "rp2350_read_reg", <<hart_id, RegS0>>)
    IN IF Returned(saved_s0) THEN saved_s0 ELSE
    LET r1 == Call(saved_s0, "execute_progbuf_simple",
                   <<hart_id, INSN_CSRR_S0 + csr_addr * Pow2(20)>>)
        r2 == Call(ZeroOnError(r1), "rp2350_read_reg", <<hart_id, RegS0>>)
    IN [Call(Ok(r2), "rp2350_write_reg", <<hart_id, RegS0, saved_s0.val>>)
           EXCEPT !.err = r2.err, !.val = r2.val]

rp2350_write_csr(m, hart_id, csr_addr, value) ==
    IF ~m.t.rp2350.initialized THEN Fail(m, "NOT_INITIALIZED")
    ELSE IF ~validate_hart_id(hart_id) THEN Fail(m, "INVALID_PARAM")
    ELSE IF ~m.t.rp2350.harts[hart_id].halted THEN Fail(m, "NOT_HALTED")
    ELSE
    LET saved_s0 == Call(m, "rp2350_read_reg", <<hart_id, RegS0>>)
    IN IF Returned(saved_s0) THEN saved_s0 ELSE
    LET r1 == Call(saved_s0, "rp2350_write_reg", <<hart_id, RegS0, value>>)
        r2 == Call(r1, "execute_progbuf_simple",
                   <<hart_id, INSN_CSRW_S0 + csr_addr * Pow2(20)>>)
    IN [Call(Ok(r2), "rp2350_write_reg", <<hart_id, RegS0, saved_s0.val>>)
           EXCEPT !.err = r2.err]

rp2350_read_pc(m, hart_id) == Call(m, "rp2350_read_csr", <<hart_id, CSR_DPC>>)

rp2350_write_pc(m, hart_id, pc) ==
    Call(m, "rp2350_write_csr", <<hart_id, CSR_DPC, pc>>)

read_dcsr(m, hart_id) == Call(m, "rp2350_read_csr", <<hart_id, CSR_DCSR>>)

write_dcsr(m, hart_id, value) ==
    Call(m, "rp2350_write_csr", <<hart_id, CSR_DCSR, value>>)

rp2350_invalidate_cache(m, hart_id) ==
    IF validate_hart_id(hart_id)
    THEN [m EXCEPT !.t.rp2350.harts[hart_id].cache_valid = FALSE]
    ELSE m

rp2350_enable_cache(m, enable) ==
    IF enable THEN [m EXCEPT !.t.rp2350.cache_enabled = TRUE]
    ELSE [m EXCEPT !.t.rp2350.cache_enabled = FALSE,
                   !.t.rp2350.harts = [h \in Harts |->
                       [m.t.rp2350.harts[h] EXCEPT !.cache_valid = FALSE]]]

-----------------------------------------------------------------------------
(* rp2350.c: hart control *)

rp2350_halt(m, hart_id) ==
    IF ~m.t.rp2350.initialized THEN Fail(m, "NOT_INITIALIZED")
    ELSE IF ~validate_hart_id(hart_id) THEN Fail(m, "INVALID_PARAM")
    ELSE IF m.t.rp2350.harts[hart_id].halt_state_known
            /\ m.t.rp2350.harts[hart_id].halted
    THEN Fail(m, "ALREADY_HALTED")
    ELSE
    LET r1 == Call(m, "dap_write_mem32",
                   <<DM_DMCONTROL, make_dmcontrol(hart_id, TRUE, FALSE, FALSE)>>)
        r2 == Call(r1, "poll_dmstatus_halted", <<hart_id, TRUE>>)
    IN IF Returned(r2) THEN r2
       ELSE Ok([r2 EXCEPT !.t.rp2350.harts[hart_id].halted = TRUE,
                          !.t.rp2350.harts[hart_id].halt_state_known = TRUE,
                          !.t.rp2350.harts[hart_id].cache_valid = FALSE])

\* rp2350_resume, were the request sent whatever the session records.
rp2350_resume_always(m, hart_id) ==
    IF ~m.t.rp2350.initialized THEN Fail(m, "NOT_INITIALIZED")
    ELSE IF ~validate_hart_id(hart_id) THEN Fail(m, "INVALID_PARAM")
    ELSE
    LET r1 == Call(m, "dap_write_mem32",
                   <<DM_DMCONTROL, make_dmcontrol(hart_id, FALSE, TRUE, FALSE)>>)
        r2 == Call(r1, "poll_dmstatus_halted", <<hart_id, FALSE>>)
    IN IF Returned(r2) THEN r2
       ELSE Ok([r2 EXCEPT !.t.rp2350.harts[hart_id].halted = FALSE,
                          !.t.rp2350.harts[hart_id].halt_state_known = TRUE,
                          !.t.rp2350.harts[hart_id].cache_valid = FALSE])

rp2350_resume(m, hart_id) ==
    IF ~m.t.rp2350.initialized THEN Fail(m, "NOT_INITIALIZED")
    ELSE IF ~validate_hart_id(hart_id) THEN Fail(m, "INVALID_PARAM")
    ELSE IF m.t.rp2350.harts[hart_id].halt_state_known
            /\ ~m.t.rp2350.harts[hart_id].halted
    THEN Ok(m)
    ELSE
    LET r1 == Call(m, "dap_write_mem32",
                   <<DM_DMCONTROL, make_dmcontrol(hart_id, FALSE, TRUE, FALSE)>>)
        r2 == Call(r1, "poll_dmstatus_halted", <<hart_id, FALSE>>)
    IN IF Returned(r2) THEN r2
       ELSE Ok([r2 EXCEPT !.t.rp2350.harts[hart_id].halted = FALSE,
                          !.t.rp2350.harts[hart_id].halt_state_known = TRUE,
                          !.t.rp2350.harts[hart_id].cache_valid = FALSE])

rp2350_step(m, hart_id) ==
    IF ~m.t.rp2350.initialized THEN Fail(m, "NOT_INITIALIZED")
    ELSE IF ~validate_hart_id(hart_id) THEN Fail(m, "INVALID_PARAM")
    ELSE IF ~m.t.rp2350.harts[hart_id].halted THEN Fail(m, "NOT_HALTED")
    ELSE
    LET dcsr_result == Call(m, "read_dcsr", <<hart_id>>)
    IN IF Returned(dcsr_result) THEN dcsr_result ELSE
    LET r1 == Call(dcsr_result, "write_dcsr",
                   <<hart_id, SetBit(dcsr_result.val, 2)>>)
        r2 == Call(r1, "dap_write_mem32",
                   <<DM_DMCONTROL, make_dmcontrol(hart_id, FALSE, FALSE, FALSE)>>)
        r3 == Call(r2, "dap_write_mem32",
                   <<DM_DMCONTROL, make_dmcontrol(hart_id, FALSE, TRUE, FALSE)>>)
    IN IF Returned(r3) THEN r3 ELSE
    LET r4 == Call([r3 EXCEPT !.t.rp2350.harts[hart_id].halted = FALSE,
                              !.t.rp2350.harts[hart_id].halt_state_known = TRUE],
                   "poll_dmstatus_halted", <<hart_id, TRUE>>)
    IN IF Returned(r4) THEN r4
       ELSE Call([r4 EXCEPT !.t.rp2350.harts[hart_id].halted = TRUE,
                            !.t.rp2350.harts[hart_id].halt_state_known = TRUE,
                            !.t.rp2350.harts[hart_id].cache_valid = FALSE],
                 "write_dcsr", <<hart_id, dcsr_result.val>>)

rp2350_reset(m, hart_id, halt_on_reset) ==
    IF ~m.t.rp2350.initialized THEN Fail(m, "NOT_INITIALIZED")
    ELSE IF ~validate_hart_id(hart_id) THEN Fail(m, "INVALID_PARAM")
    ELSE
    LET r1 == Call(m, "dap_write_mem32",
                   <<DM_DMCONTROL,
                     make_dmcontrol(hart_id, halt_on_reset, FALSE, TRUE)>>)
        r2 == Call(r1, "dap_write_mem32",
                   <<DM_DMCONTROL,
                     make_dmcontrol(hart_id, halt_on_reset, FALSE, FALSE)>>)
        r3 == IF halt_on_reset
              THEN Call(r2, "poll_dmstatus_halted", <<hart_id, TRUE>>)
              ELSE r2
    IN IF Returned(r3) THEN r3
       ELSE Ok([r3 EXCEPT !.t.rp2350.harts[hart_id].halted = halt_on_reset,
                          !.t.rp2350.harts[hart_id].halt_state_known = TRUE,
                          !.t.rp2350.harts[hart_id].cache_valid = FALSE])

\* The boolean returned is in val (1: halted).
rp2350_is_halted(m, hart_id) ==
    IF ~m.t.rp2350.initialized THEN Ok([m EXCEPT !.val = 0])
    ELSE IF ~validate_hart_id(hart_id) THEN Ok([m EXCEPT !.val = 0])
    ELSE IF m.t.rp2350.harts[hart_id].halt_state_known
    THEN Ok([m EXCEPT !.val = B2N(m.t.rp2350.harts[hart_id].halted)])
    ELSE
    LET r1 == Call([m EXCEPT !.val = 0], "dap_write_mem32",
                   <<DM_DMCONTROL, make_dmcontrol(hart_id, FALSE, FALSE, FALSE)>>)
        r2 == Call(r1, "dap_read_mem32", <<DM_DMSTATUS>>)
    IN IF Returned(r2) THEN Ok([r2 EXCEPT !.val = 0])
       ELSE [r2 EXCEPT !.val = Bit(r2.val, 9),
                       !.t.rp2350.harts[hart_id].halted = (Bit(r2.val, 9) = 1),
                       !.t.rp2350.harts[hart_id].halt_state_known = TRUE]

(* rp2350.c: memory access *)

rp2350_read_mem32(m, addr) ==
    IF ~m.t.rp2350.initialized
    THEN Fail([m EXCEPT !.val = 0], "NOT_INITIALIZED")
    ELSE IF addr % 4 # 0 THEN Fail([m EXCEPT !.val = 0], "ALIGNMENT")
    ELSE IF m.t.rp2350.sba_initialized
    THEN LET r1 == Call([m EXCEPT !.val = 0], "dap_write_mem32",
                        <<DM_SBADDRESS0, addr>>)
         IN Call(ZeroOnError(r1), "dap_read_mem32", <<DM_SBDATA0>>)
    ELSE Call([m EXCEPT !.val = 0], "dap_read_mem32", <<addr>>)

rp2350_write_mem32(m, addr, value) ==
    IF ~m.t.rp2350.initialized THEN Fail(m, "NOT_INITIALIZED")
    ELSE IF addr % 4 # 0 THEN Fail(m, "ALIGNMENT")
    ELSE IF m.t.rp2350.sba_initialized
    THEN LET r1 == Call(m, "dap_write_mem32", <<DM_SBADDRESS0, addr>>)
         IN Call(r1, "dap_write_mem32", <<DM_SBDATA0, value>>)
    ELSE Call(m, "dap_write_mem32", <<addr, value>>)

-----------------------------------------------------------------------------
(* rp2350.c: byte and halfword memory access *)

\* addr & ~3
aligned_addr(addr) == addr - (addr % 4)

\* The four bytes of a word, least significant first, and the word of four.
Bytes(v) == [i \in 0 .. 3 |-> Field(v, 8 * i, 8)]

FromBytes(b) ==
    LET low == b[0] + b[1] * Pow2(8) + b[2] * Pow2(16)
    IN IF b[3] >= 128 THEN MinInt32 + (b[3] - 128) * Pow2(24) + low
       ELSE b[3] * Pow2(24) + low

rp2350_read_mem16(m, addr) ==
    IF addr % 2 # 0 THEN Fail([m EXCEPT !.val = 0], "ALIGNMENT")
    ELSE LET r == Call(m, "rp2350_read_mem32", <<aligned_addr(addr)>>)
         IN IF Returned(r) THEN r
            ELSE IF addr % 4 = 0 THEN [r EXCEPT !.val = Field(r.val, 0, 16)]
            ELSE [r EXCEPT !.val = Field(r.val, 16, 16)]

\* A hart that runs executes its program while the debugger works.  On a
\* device that env.store describes, <<i, b>>, a running hart stores the
\* byte b to byte i of the word the debugger has just read, before the
\* debugger writes the word back.
HartStore(m, word) ==
    IF m.env.store = <<>> \/ \A h \in Harts : ~m.c.harts[h].running THEN m
    ELSE [m EXCEPT !.c.mem[word] =
              FromBytes([Bytes(@) EXCEPT ![m.env.store[1]] = m.env.store[2]]),
                   !.log = Append(@, <<"store", word, m.env.store[1],
                                       m.env.store[2]>>)]

\* (current & 0xFFFF0000) | value, (current & 0x0000FFFF) | (value << 16)
rp2350_write_mem16(m, addr, value) ==
    IF addr % 2 # 0 THEN Fail(m, "ALIGNMENT")
    ELSE LET r == Call(m, "rp2350_read_mem32", <<aligned_addr(addr)>>)
             b == Bytes(r.val)
             lo == value % 256
             hi == (value \div 256) % 256
             new_value == IF addr % 4 = 0
                          THEN FromBytes([b EXCEPT ![0] = lo, ![1] = hi])
                          ELSE FromBytes([b EXCEPT ![2] = lo, ![3] = hi])
         IN IF Returned(r) THEN r
            ELSE Call(HartStore([r EXCEPT !.val = 0], aligned_addr(addr)),
                      "rp2350_write_mem32", <<aligned_addr(addr), new_value>>)

rp2350_read_mem8(m, addr) ==
    LET r == Call(m, "rp2350_read_mem32", <<aligned_addr(addr)>>)
    IN IF Returned(r) THEN r
       ELSE [r EXCEPT !.val = Field(r.val, (addr % 4) * 8, 8)]

\* rp2350_write_mem8 placing the byte most significant first.
write_mem8_big_endian(m, addr, value) ==
    LET r == Call(m, "rp2350_read_mem32", <<aligned_addr(addr)>>)
        new_value == FromBytes([Bytes(r.val) EXCEPT ![3 - (addr % 4)] = value % 256])
    IN IF Returned(r) THEN r
       ELSE Call([r EXCEPT !.val = 0], "rp2350_write_mem32", <<aligned_addr(addr), new_value>>)

\* rp2350_write_mem8 were the word read and written back in one bus
\* operation: the store of the hart lands before it.
write_mem8_atomic(m, addr, value) ==
    LET r == Call(HartStore(m, aligned_addr(addr)), "rp2350_read_mem32",
                  <<aligned_addr(addr)>>)
        new_value == FromBytes([Bytes(r.val) EXCEPT ![addr % 4] = value % 256])
    IN IF Returned(r) THEN r
       ELSE Call([r EXCEPT !.val = 0], "rp2350_write_mem32", <<aligned_addr(addr), new_value>>)

\* (current & ~(0xFF << (offset * 8))) | (value << (offset * 8))
rp2350_write_mem8(m, addr, value) ==
    LET r == Call(m, "rp2350_read_mem32", <<aligned_addr(addr)>>)
        new_value == FromBytes([Bytes(r.val) EXCEPT ![addr % 4] = value % 256])
    IN IF Returned(r) THEN r
       ELSE Call(HartStore([r EXCEPT !.val = 0], aligned_addr(addr)),
                 "rp2350_write_mem32", <<aligned_addr(addr), new_value>>)

-----------------------------------------------------------------------------
(* rp2350.c: code upload and execution *)

\* The loop, were every word written and read back before the first
\* mismatch is reported.
RECURSIVE upload_loop_all(_, _, _, _)
upload_loop_all(m, addr, code, i) ==
    IF i > Len(code) THEN Ok(m)
    ELSE LET w == Call(m, "rp2350_write_mem32", <<addr + (i - 1) * 4, code[i]>>)
             wl == [w EXCEPT !.log = Append(@, <<"write", i, w.err>>)]
         IN IF Returned(wl) THEN wl
            ELSE LET readback == Call(wl, "rp2350_read_mem32",
                                      <<addr + (i - 1) * 4>>)
                     rl == [readback EXCEPT
                               !.log = Append(@, <<"read", i, readback.err,
                                                   readback.val>>)]
                 IN IF Returned(rl) THEN rl
                    ELSE IF rl.val # code[i]
                    THEN Fail(upload_loop_all(rl, addr, code, i + 1), "VERIFY")
                    ELSE upload_loop_all(rl, addr, code, i + 1)

\* The loop of rp2350_upload_code, at word i of code (from 1).  m.log keeps
\* the memory accesses the loop made: the word's index, the error returned
\* and, of a read, the value.
RECURSIVE upload_loop(_, _, _, _)
upload_loop(m, addr, code, i) ==
    IF i > Len(code) THEN Ok(m)
    ELSE LET w == Call(m, "rp2350_write_mem32", <<addr + (i - 1) * 4, code[i]>>)
             wl == [w EXCEPT !.log = Append(@, <<"write", i, w.err>>)]
         IN IF Returned(wl) THEN wl
            ELSE LET readback == Call(wl, "rp2350_read_mem32",
                                      <<addr + (i - 1) * 4>>)
                     rl == [readback EXCEPT
                               !.log = Append(@, <<"read", i, readback.err,
                                                   readback.val>>)]
                 IN IF Returned(rl) THEN rl
                    ELSE IF rl.val # code[i] THEN Fail(rl, "VERIFY")
                    ELSE upload_loop(rl, addr, code, i + 1)

rp2350_upload_code(m, addr, code) ==
    IF Len(code) = 0 THEN Fail(m, "INVALID_PARAM")
    ELSE IF addr % 4 # 0 THEN Fail(m, "ALIGNMENT")
    ELSE upload_loop(m, addr, code, 1)

\* The steps of rp2350_execute_code after the upload returned u.  m.log
\* records the result of the PC read-back.
execute_uploaded(u, hart_id, entry_point) ==
    LET h == IF ~u.t.rp2350.harts[hart_id].halted
             THEN Call(u, "rp2350_halt", <<hart_id>>) ELSE u
    IN IF Returned(h) /\ h.err # "ALREADY_HALTED" THEN h ELSE
    LET w == Call(Ok(h), "rp2350_write_pc", <<hart_id, entry_point>>)
    IN IF Returned(w) THEN w ELSE
    LET pc == Call(w, "rp2350_read_pc", <<hart_id>>)
        pl == [pc EXCEPT !.log = Append(@, <<"pc", pc.err, pc.val>>)]
    IN IF Returned(pl) \/ pl.val # entry_point THEN Fail(pl, "VERIFY")
       ELSE Call(pl, "rp2350_resume", <<hart_id>>)

\* The same function, were the result of the upload dropped.
execute_code_unverified(m, hart_id, entry_point, code) ==
    IF ~validate_hart_id(hart_id) THEN Fail(m, "INVALID_PARAM")
    ELSE LET u == Call(m, "rp2350_upload_code", <<entry_point, code>>)
         IN execute_uploaded(Ok(u), hart_id, entry_point)

rp2350_execute_code(m, hart_id, entry_point, code) ==
    IF ~validate_hart_id(hart_id) THEN Fail(m, "INVALID_PARAM")
    ELSE LET u == Call(m, "rp2350_upload_code", <<entry_point, code>>)
         IN IF Returned(u) THEN u
            ELSE execute_uploaded(u, hart_id, entry_point)

-----------------------------------------------------------------------------
(* rp2350.c: instruction tracing *)

\* The return after a failed step of the loop, were the error returned
\* whatever the count.
trace_return_error(m, count) == [m EXCEPT !.val = 0]

\* `return count > 0 ? (int)count : -err': the int returned is val when err
\* is OK and the negated code of err otherwise.
trace_return(m, count) ==
    IF count > 0 THEN [m EXCEPT !.err = "OK", !.val = count]
    ELSE [m EXCEPT !.val = 0]

\* The loop of rp2350_trace.  The callback returns false at its stop-th
\* invocation (never, if stop is 0); m.calls counts its invocations.
RECURSIVE trace_loop(_, _, _, _, _, _)
trace_loop(m, hart_id, max_instructions, stop, capture_regs, count) ==
    IF ~(max_instructions = 0 \/ count < max_instructions)
    THEN [m EXCEPT !.err = "OK", !.val = count]
    ELSE
    LET pc_result == Call(m, "rp2350_read_pc", <<hart_id>>)
    IN IF Returned(pc_result) THEN trace_return(pc_result, count) ELSE
    LET inst_result == Call(pc_result, "rp2350_read_mem32", <<pc_result.val>>)
    IN IF Returned(inst_result) THEN trace_return(inst_result, count) ELSE
    LET regs == IF capture_regs
                THEN Call(inst_result, "rp2350_read_all_regs", <<hart_id>>)
                ELSE inst_result
    IN IF Returned(regs) THEN trace_return(regs, count) ELSE
    LET called == [regs EXCEPT !.calls = @ + 1]
    IN IF stop = count + 1
       THEN [called EXCEPT !.err = "OK", !.val = count + 1]
       ELSE LET step == Call(called, "rp2350_step", <<hart_id>>)
            IN IF Returned(step) THEN trace_return(step, count + 1)
               ELSE trace_loop(step, hart_id, max_instructions, stop,
                               capture_regs, count + 1)

rp2350_trace(m, hart_id, max_instructions, stop, capture_regs) ==
    IF ~m.t.rp2350.initialized THEN Fail(m, "NOT_INITIALIZED")
    ELSE IF ~validate_hart_id(hart_id) THEN Fail(m, "INVALID_PARAM")
    ELSE
    LET r == IF ~m.t.rp2350.harts[hart_id].halted
             THEN Call(m, "rp2350_halt", <<hart_id>>)
             ELSE m
    IN IF Returned(r) /\ r.err # "ALREADY_HALTED" THEN r
       ELSE trace_loop(Ok(r), hart_id, max_instructions, stop,
                       capture_regs, 0)

-----------------------------------------------------------------------------
(* The functions of the driver that are called by name *)

Call(m, f, a) ==
    IF Returned(m) THEN m ELSE
    CASE f = "swd_read_dp_raw" -> swd_read_dp_raw(m, a[1])
      [] f = "swd_write_dp_raw" -> swd_write_dp_raw(m, a[1], a[2])
      [] f = "swd_read_ap_raw" -> swd_read_ap_raw(m, a[1], a[2])
      [] f = "swd_write_ap_raw" -> swd_write_ap_raw(m, a[1], a[2])
      [] f = "init_pio" -> init_pio(m)
      [] f = "select_ap_bank" -> select_ap_bank(m, a[1], a[2])
      [] f = "dap_power_up" -> dap_power_up(m)
      [] f = "dap_power_down" -> dap_power_down(m)
      [] f = "dap_read_dp" -> dap_read_dp(m, a[1])
      [] f = "dap_write_dp" -> dap_write_dp(m, a[1], a[2])
      [] f = "dap_read_ap" -> dap_read_ap(m, a[1], a[2])
      [] f = "dap_write_ap" -> dap_write_ap(m, a[1], a[2], a[3])
      [] f = "dap_read_mem32" -> dap_read_mem32(m, a[1])
      [] f = "dap_write_mem32" -> dap_write_mem32(m, a[1], a[2])
      [] f = "dap_clear_errors" -> dap_clear_errors(m)
      [] f = "swd_connect" -> swd_connect(m)
      [] f = "swd_disconnect" -> swd_disconnect(m)
      [] f = "wait_abstract_command" -> wait_abstract_command(m)
      [] f = "poll_dmstatus_halted" -> poll_dmstatus_halted(m, a[1], a[2])
      [] f = "rp2350_init_sba" -> rp2350_init_sba(m)
      [] f = "rp2350_init" -> rp2350_init(m)
      [] f = "execute_progbuf_simple" -> execute_progbuf_simple(m, a[1], a[2])
      [] f = "rp2350_execute_progbuf" -> rp2350_execute_progbuf(m, a[1], a[2])
      [] f = "rp2350_read_reg" -> rp2350_read_reg(m, a[1], a[2])
      [] f = "rp2350_write_reg" -> rp2350_write_reg(m, a[1], a[2], a[3])
      [] f = "rp2350_read_all_regs" -> rp2350_read_all_regs(m, a[1])
      [] f = "rp2350_read_csr" -> rp2350_read_csr(m, a[1], a[2])
      [] f = "rp2350_write_csr" -> rp2350_write_csr(m, a[1], a[2], a[3])
      [] f = "rp2350_read_pc" -> rp2350_read_pc(m, a[1])
      [] f = "rp2350_write_pc" -> rp2350_write_pc(m, a[1], a[2])
      [] f = "read_dcsr" -> read_dcsr(m, a[1])
      [] f = "write_dcsr" -> write_dcsr(m, a[1], a[2])
      [] f = "rp2350_halt" -> rp2350_halt(m, a[1])
      [] f = "rp2350_resume" -> rp2350_resume(m, a[1])
      [] f = "rp2350_step" -> rp2350_step(m, a[1])
      [] f = "rp2350_reset" -> rp2350_reset(m, a[1], a[2])
      [] f = "rp2350_is_halted" -> rp2350_is_halted(m, a[1])
      [] f = "rp2350_read_mem32" -> rp2350_read_mem32(m, a[1])
      [] f = "rp2350_write_mem32" -> rp2350_write_mem32(m, a[1], a[2])
      [] f = "rp2350_read_mem16" -> rp2350_read_mem16(m, a[1])
      [] f = "rp2350_write_mem16" -> rp2350_write_mem16(m, a[1], a[2])
      [] f = "rp2350_read_mem8" -> rp2350_read_mem8(m, a[1])
      [] f = "rp2350_write_mem8" -> rp2350_write_mem8(m, a[1], a[2])
      [] f = "rp2350_trace" -> rp2350_trace(m, a[1], a[2], a[3], a[4])
      [] f = "rp2350_upload_code" -> rp2350_upload_code(m, a[1], a[2])
      [] f = "rp2350_execute_code" ->
            rp2350_execute_code(m, a[1], a[2], a[3])

-----------------------------------------------------------------------------
(* The session after swd_target_create, the device after power-on *)

NewHartState == [halted |-> FALSE, halt_state_known |-> FALSE,
                 cache_valid |-> FALSE, cached_gprs |-> [r \in GPRS |-> 0]]

NewTarget ==
    [connected |-> FALSE, idcode |-> 0,
     pio |-> [initialized |-> FALSE],
     dap |-> [powered |-> FALSE, current_apsel |-> 0, current_bank |-> 0,
              ctrlsel |-> FALSE, retry_count |-> DefaultRetryCount],
     rp2350 |-> [initialized |-> FALSE, sba_initialized |-> FALSE,
                 cache_enabled |-> FALSE,
                 harts |-> [h \in Harts |-> NewHartState]]]

NewChip ==
    [sel |-> NewSelect,
     ctrlstat |-> 0, cmderr |-> 0, hartsel |-> 0, dmactive |-> FALSE,
     harts |-> [h \in Harts |->
                  [running |-> TRUE, gprs |-> [r \in GPRS \ {0} |-> 0],
                   dpc |-> 0, dcsr |-> 0]],
     mem |-> [a \in Ram |-> 0],
     sbreadonaddr |-> FALSE]

\* The probe has two PIO blocks of four state machines: slot 4 * pio + sm.
PioBlocks == 2
SmPerBlock == 4
Slots == 0 .. PioBlocks * SmPerBlock - 1
\* the sessions of the process
Sessions == 1 .. MaxSessions

\* owners: the resource tracker, the sessions registered for each slot;
\* bound: the slot each session drives.
NewProbe ==
    [programs |-> 0, sm_enabled |-> FALSE,
     owners |-> [x \in Slots |-> {}],
     bound |-> [s \in Sessions |-> {}]]

\* What a call leaves for the caller, and what it did on the wire.
Result(op, hart, reg, arg, m) ==
    [op |-> op, hart |-> hart, reg |-> reg, arg |-> arg,
     err |-> m.err, val |-> m.val,
     wire |-> m.tx > 0, offline |-> m.offline, stale |-> m.stale,
     fault |-> m.gotfault, rawret |-> m.rawret, calls |-> m.calls,
     log |-> m.log, polls |-> m.polls, hd |-> m.hd, posted |-> m.posted]

Init ==
    /\ target = NewTarget
    /\ chip = NewChip
    /\ probe = NewProbe
    /\ last = Result("swd_target_create", 0, 0, 0,
                     Machine(NewTarget, NewChip, NewProbe, NoFault, DefaultEnv))

\* The call returned (a trap of the probe ends the program).
Alive == last.err # "CRASH"

Commit(m, rec) ==
    /\ target' = m.t
    /\ chip' = m.c
    /\ probe' = m.p
    /\ last' = rec

Start(sc) == Machine(target, chip, probe, sc.plan, sc.env)

NoVal(m) == [m EXCEPT !.val = 0]

NoLog(m) == [m EXCEPT !.log = <<>>, !.polls = NoPolls, !.hd = {}]

\* A call that returns an error code only: m is the machine it leaves.
Finish(m, op, hart, reg, arg) ==
    Commit(m, Result(op, hart, reg, arg, NoLog(NoVal(m))))

\* A call that returns a value: m is the machine it leaves.
FinishVal(m, op, hart, reg, arg) ==
    Commit(m, Result(op, hart, reg, arg, NoLog(m)))

\* A call that returns an error code only and whose steps the history keeps.
FinishLog(m, op, hart, reg, arg) ==
    Commit(m, Result(op, hart, reg, arg, NoVal(m)))

-----------------------------------------------------------------------------
(* Calls of the connection and DAP interface *)

ConnectEnvs == {[DefaultEnv EXCEPT !.idcode = i, !.ackpower = a] :
                    i \in IdCodes, a \in BOOLEAN}

Connect ==
    /\ Alive
    /\ \E sc \in Scenarios(MaxDapFaultAt, WireKinds, ConnectEnvs) :
         Finish(Call(Start(sc), "swd_connect", <<>>),
                "swd_connect", 0, 0, 0)

Disconnect ==
    /\ Alive
    /\ \E sc \in Scenarios(MaxDpFaultAt, WireKinds, {DefaultEnv}) :
         Finish(Call(Start(sc), "swd_disconnect", <<>>),
                "swd_disconnect", 0, 0, 0)

InitEnvs == {[DefaultEnv EXCEPT !.dmresponds = d, !.trap = x] :
                 d \in BOOLEAN, x \in BOOLEAN}

Rp2350Init ==
    /\ Alive
    /\ \E sc \in Scenarios(MaxFaultAt, FewKinds, InitEnvs) :
         Finish(Call(Start(sc), "rp2350_init", <<>>),
                "rp2350_init", 0, 0, 0)

DpRegs == {DP_IDCODE, DP_CTRL_STAT, DP_RDBUFF}

\* DP writes a caller makes: CTRL/STAT and SELECT words
DpWrites == {<<DP_CTRL_STAT, 0>>,
             <<DP_SELECT, make_dp_select_rp2350(AP_RISCV, 0, TRUE)>>,
             <<DP_SELECT, make_dp_select_rp2350(AP_RISCV, 1, TRUE)>>}

\* AP registers a caller reads and writes: <<apsel, reg>>, <<apsel, reg, word>>
ApReads == {<<AP_RISCV, AP_CSW>>, <<AP_RISCV, AP_DRW>>}

ApWrites == {<<AP_RISCV, AP_TAR, DM_DATA0>>, <<AP_RISCV, AP_DRW, 1>>}

DapReadDp ==
    /\ Alive
    /\ \E sc \in Scenarios(MaxDpFaultAt, WireKinds, {DefaultEnv}), reg \in DpRegs :
         Finish(Call(Start(sc), "dap_read_dp", <<reg>>),
                "dap_read_dp", 0, 0, 0)

DapWriteDp ==
    /\ Alive
    /\ \E sc \in Scenarios(MaxDpFaultAt, WireKinds, {DefaultEnv}), w \in DpWrites :
         Finish(Call(Start(sc), "dap_write_dp", <<w[1], w[2]>>),
                "dap_write_dp", 0, 0, 0)

DapReadAp ==
    /\ Alive
    /\ \E sc \in Scenarios(MaxDapFaultAt, WireKinds, {DefaultEnv}), a \in ApReads :
         Finish(Call(Start(sc), "dap_read_ap", <<a[1], a[2]>>),
                "dap_read_ap", 0, 0, 0)

DapWriteAp ==
    /\ Alive
    /\ \E sc \in Scenarios(MaxDapFaultAt, WireKinds, {DefaultEnv}), a \in ApWrites :
         Finish(Call(Start(sc), "dap_write_ap", <<a[1], a[2], a[3]>>),
                "dap_write_ap", 0, 0, 0)

DapClearErrors ==
    /\ Alive
    /\ \E sc \in Scenarios(MaxDpFaultAt, WireKinds, {DefaultEnv}) :
         Finish(Call(Start(sc), "dap_clear_errors", <<>>),
                "dap_clear_errors", 0, 0, 0)

DapPowerUp ==
    /\ Alive
    /\ \E sc \in Scenarios(MaxDapFaultAt, WireKinds, {[DefaultEnv EXCEPT !.ackpower = a] :
                                              a \in BOOLEAN}) :
         Finish(Call(Start(sc), "dap_power_up", <<>>),
                "dap_power_up", 0, 0, 0)

Next ==
    \/ Connect
    \/ Disconnect
    \/ Rp2350Init
    \/ DapReadDp
    \/ DapWriteDp
    \/ DapReadAp
    \/ DapWriteAp
    \/ DapClearErrors
    \/ DapPowerUp

Spec == Init /\ [][Next]_vars

-----------------------------------------------------------------------------
(* Calls of the Debug Module driver, on a session that swd_connect and      *)
(* rp2350_init have brought up                                              *)

Connected == Call(Machine(NewTarget, NewChip, NewProbe, NoFault, DefaultEnv),
                  "swd_connect", <<>>)

Initialized == Call(Machine(Connected.t, Connected.c, Connected.p,
                                   NoFault, DefaultEnv),
                    "rp2350_init", <<>>)

InitHart ==
    /\ target = Initialized.t
    /\ chip = Initialized.c
    /\ probe = Initialized.p
    /\ last = Result("rp2350_init", 0, 0, 0, NoLog(NoVal(Initialized)))

\* the harts whose registers the calls read and write
DataHarts == {0}
\* the registers they name
DataRegs == {0, 8}

\* the last raw access of rp2350_write_reg: the RDBUFF read that returns
\* ABSTRACTCS after the COMMAND write has taken effect
WriteRegLastAccess == 9

HaltEnvs == {[DefaultEnv EXCEPT !.honour = FALSE]}

StepEnvs == {[DefaultEnv EXCEPT !.stephalts = FALSE]}

Halt(H) ==
    \E sc \in Scenarios(0, OneKind, HaltEnvs), h \in H :
        Finish(Call(Start(sc), "rp2350_halt", <<h>>),
               "rp2350_halt", h, 0, 0)

Resume(H) ==
    \E sc \in Scenarios(0, OneKind, HaltEnvs), h \in H :
        Finish(Call(Start(sc), "rp2350_resume", <<h>>),
               "rp2350_resume", h, 0, 0)

Step(H) ==
    \E sc \in Scenarios(0, OneKind, {DefaultEnv}), h \in H :
        Finish(Call(Start(sc), "rp2350_step", <<h>>),
               "rp2350_step", h, 0, 0)

\* rp2350_step on a hart that does not halt again within the poll.
StepNoHalt(H) ==
    \E sc \in Scenarios(0, OneKind, StepEnvs) \ Scenarios(0, OneKind, {DefaultEnv}),
       h \in H :
        Finish(Call(Start(sc), "rp2350_step", <<h>>),
               "rp2350_step", h, 0, 0)

Reset(H) ==
    \E sc \in Scenarios(0, OneKind, HaltEnvs), h \in H,
       halt_on_reset \in BOOLEAN :
        Finish(Call(Start(sc), "rp2350_reset", <<h, halt_on_reset>>),
               "rp2350_reset", h, 0, B2N(halt_on_reset))

ReadReg(H, R) ==
    \E sc \in Scenarios(0, OneKind, {DefaultEnv}),
       h \in H, r \in R :
        Finish(Call(Start(sc), "rp2350_read_reg", <<h, r>>),
               "rp2350_read_reg", h, r, 0)

\* a FAULT on one of the last accesses of rp2350_write_reg, or none
LateFaults == LatePlans(WriteRegLastAccess, MaxDmFaultAt, OneKind)

WriteReg(H, R, P) ==
    \E plan \in P,
       h \in H, r \in R, v \in Words :
        Finish(Call(Start([plan |-> plan, env |-> DefaultEnv]),
                    "rp2350_write_reg", <<h, r, v>>),
               "rp2350_write_reg", h, r, v)

ReadAllRegs(H) ==
    \E sc \in Scenarios(0, OneKind, {DefaultEnv}), h \in H :
        Finish(Call(Start(sc), "rp2350_read_all_regs", <<h>>),
               "rp2350_read_all_regs", h, 0, 0)

ReadPc(H) ==
    \E sc \in Scenarios(0, OneKind, {DefaultEnv}), h \in H :
        Finish(Call(Start(sc), "rp2350_read_pc", <<h>>),
               "rp2350_read_pc", h, 0, 0)

\* after: the call follows a halt of the same hart that returned OK or
\* AlreadyHalted.
WritePc(H) ==
    \E sc \in Scenarios(0, OneKind, {DefaultEnv}),
       h \in H, v \in PcWords :
        LET after == /\ last.op = "rp2350_halt"
                     /\ last.hart = h
                     /\ last.err \in {"OK", "ALREADY_HALTED"}
        IN Finish(Call(Start(sc), "rp2350_write_pc", <<h, v>>),
                  "rp2350_write_pc", h, B2N(after), v)

EnableCache ==
    \E enable \in BOOLEAN :
        Finish(Ok(rp2350_enable_cache(Start([plan |-> NoFault,
                                             env |-> DefaultEnv]), enable)),
               "rp2350_enable_cache", 0, 0, B2N(enable))

ReadMem32 ==
    \E sc \in Scenarios(0, OneKind, {DefaultEnv}), addr \in Addrs :
        Finish(Call(Start(sc), "rp2350_read_mem32", <<addr>>),
               "rp2350_read_mem32", 0, 0, 0)

WriteMem32 ==
    \E sc \in Scenarios(0, OneKind, {DefaultEnv}), addr \in Addrs :
        Finish(Call(Start(sc), "rp2350_write_mem32", <<addr, 1>>),
               "rp2350_write_mem32", 0, 0, 1)

NextHart ==
    \/ Halt(DataHarts)
    \/ Resume(DataHarts)
    \/ Step(DataHarts)
    \/ ReadReg(DataHarts, DataRegs)
    \/ WriteReg(DataHarts, DataRegs, LateFaults)
    \/ ReadAllRegs(DataHarts)
    \/ ReadPc(DataHarts)
    \/ WritePc(DataHarts)
    \/ EnableCache
    \/ ReadMem32
    \/ WriteMem32

SpecHart == InitHart /\ [][NextHart]_vars

\* Run control alone: the calls that change what the session records of a
\* hart, and the ones that fill the register cache.
NextCtl ==
    \/ Halt(DataHarts)
    \/ Resume(DataHarts)
    \/ Step(DataHarts)
    \/ StepNoHalt(DataHarts)
    \/ Reset(DataHarts)
    \/ ReadAllRegs(DataHarts)
    \/ EnableCache

SpecCtl == InitHart /\ [][NextCtl]_vars

\* Register access on a hart that a reset may have set running while the
\* session records it halted; the wire may fail once during an access.
NextCmd ==
    \/ Halt(DataHarts)
    \/ Resume(DataHarts)
    \/ Reset(DataHarts)
    \/ ReadReg(DataHarts, {RegS0})
    \/ WriteReg(DataHarts, {RegS0}, Plans(MaxCmdFaultAt, OneKind))

SpecCmd == InitHart /\ [][NextCmd]_vars

\* Calls on a target on which an awaited condition may never appear: it
\* ignores halt and resume requests, does not halt after a step, never
\* completes an abstract command, or never acknowledges the power-up.  The
\* reg of a call names the target.
PollEnvs ==
    [none    |-> DefaultEnv,
     ignore  |-> [DefaultEnv EXCEPT !.honour = FALSE],
     nostep  |-> [DefaultEnv EXCEPT !.stephalts = FALSE],
     busy    |-> [DefaultEnv EXCEPT !.busy = TRUE],
     nopower |-> [DefaultEnv EXCEPT !.ackpower = FALSE]]

PollCall(f, args, hart, arg, envs) ==
    \E e \in envs :
        FinishLog(Call(Start([plan |-> NoFault, env |-> PollEnvs[e]]), f, args),
                  f, hart, e, arg)

NextPoll ==
    \/ PollCall("swd_disconnect", <<>>, 0, 0, {"none"})
    \/ PollCall("swd_connect", <<>>, 0, 0, {"none", "nopower"})
    \/ PollCall("rp2350_init", <<>>, 0, 0, {"none"})
    \/ PollCall("dap_power_up", <<>>, 0, 0, {"none", "nopower"})
    \/ \E h \in DataHarts :
          PollCall("rp2350_is_halted", <<h>>, h, 0, {"none"})
    \/ \E h \in DataHarts :
          PollCall("rp2350_halt", <<h>>, h, 0, {"none", "ignore"})
    \/ \E h \in DataHarts :
          PollCall("rp2350_resume", <<h>>, h, 0, {"none", "ignore"})
    \/ \E h \in DataHarts :
          PollCall("rp2350_step", <<h>>, h, 0, {"none", "nostep", "busy"})
    \/ \E h \in DataHarts, halt_on_reset \in BOOLEAN :
          PollCall("rp2350_reset", <<h, halt_on_reset>>, h, B2N(halt_on_reset),
                   {"none", "ignore"})
    \/ \E h \in DataHarts :
          PollCall("rp2350_read_reg", <<h, RegS0>>, h, 0, {"none", "busy"})
    \/ \E h \in DataHarts :
          PollCall("rp2350_write_reg", <<h, RegS0, 1>>, h, 1, {"none", "busy"})
    \/ \E h \in DataHarts :
          PollCall("rp2350_read_csr", <<h, CSR_DPC>>, h, 0, {"none", "busy"})
    \/ \E h \in DataHarts :
          PollCall("rp2350_write_csr", <<h, CSR_DPC, 4>>, h, 4, {"none", "busy"})

InitPoll ==
    /\ target = Initialized.t
    /\ chip = Initialized.c
    /\ probe = Initialized.p
    /\ last = Result("rp2350_init", 0, "none", 0, NoLog(NoVal(Initialized)))

SpecPoll == InitPoll /\ [][NextPoll]_vars

\* Connection attempts to targets of several IDCODEs: 0x00100000 and 1 have
\* DESIGNER (bits 11:1) zero and other bits of the low 28 set.
ConnectIdCodes == IdCodes \cup {1048576, 1}
ConnectIdEnvs == {[DefaultEnv EXCEPT !.idcode = i] : i \in ConnectIdCodes}

ConnectTo ==
    \E sc \in Scenarios(MaxDapFaultAt, WireKinds, ConnectIdEnvs) :
        FinishLog(Call(Start(sc), "swd_connect", <<>>), "swd_connect", 0, 0, 0)

NextConnect ==
    \/ ConnectTo
    \/ Disconnect

SpecConnect == Init /\ [][NextConnect]_vars

\* Single transactions of the wire engine on a connected session.
BadAckKinds == {"ACKERR", "ACKBAD", "ACK3", "ACK5", "ACK6"}
FlipKinds == {"PARITY", "FLIP0", "FLIP31", "FLIP0_31", "FLIP7_32"}
RawKinds == {"NONE", "FAULT", "WAITALL"} \cup BadAckKinds \cup FlipKinds
RawRegs == {0, 4, 8, 12}

\* The machine at the transaction: the wire answers as kind says and
\* *data holds the word `data'.
RawStart(kind, data) ==
    [Machine(target, chip, probe, NoFault, DefaultEnv)
        EXCEPT !.cur = kind, !.val = data]

SwdIoRawRead ==
    \E kind \in RawKinds, APnDP \in BOOLEAN, reg \in RawRegs,
       data \in Words :
        Commit(swd_io_raw(RawStart(kind, data),
                          make_swd_request(APnDP, TRUE, reg), 0,
                          FALSE, TRUE, 0),
               Result("swd_io_raw_read", B2N(APnDP), reg, data,
                      swd_io_raw(RawStart(kind, data),
                                 make_swd_request(APnDP, TRUE, reg), 0,
                                 FALSE, TRUE, 0)))

SwdIoRawWrite ==
    \E kind \in RawKinds \ FlipKinds, APnDP \in BOOLEAN, reg \in RawRegs,
       data \in Words :
        FinishLog(swd_io_raw(RawStart(kind, data),
                             make_swd_request(APnDP, FALSE, reg), data,
                             TRUE, TRUE, 0),
                  "swd_io_raw_write", B2N(APnDP), reg, data)

InitWire ==
    /\ target = Connected.t
    /\ chip = Connected.c
    /\ probe = Connected.p
    /\ last = Result("swd_connect", 0, 0, 0, NoLog(NoVal(Connected)))

NextWire ==
    \/ SwdIoRawRead
    \/ SwdIoRawWrite

SpecWire == InitWire /\ [][NextWire]_vars

\* CSR access over a wire that may fail once during a call.
CsrAddrs == {CSR_DPC}

CsrRead ==
    \E sc \in Scenarios(MaxCsrFaultAt, OneKind, {DefaultEnv}),
       h \in DataHarts, csr \in CsrAddrs :
        FinishVal(Call(Start(sc), "rp2350_read_csr", <<h, csr>>),
                  "rp2350_read_csr", h, csr, 0)

CsrWrite ==
    \E sc \in Scenarios(MaxCsrFaultAt, OneKind, {DefaultEnv}),
       h \in DataHarts, csr \in CsrAddrs, v \in Words :
        Finish(Call(Start(sc), "rp2350_write_csr", <<h, csr, v>>),
               "rp2350_write_csr", h, csr, v)

NextCsr ==
    \/ Halt(DataHarts)
    \/ ReadAllRegs(DataHarts)
    \/ EnableCache
    \/ CsrRead
    \/ CsrWrite

SpecCsr == InitHart /\ [][NextCsr]_vars

\* rp2350_trace over a wire that may fail once during the call.  A trace is
\* ended by its limit or by its callback.
TracePlans ==
    {NoFault} \cup [at : {a \in 1 .. MaxTraceFaultAt : a % TraceStride = 1},
                    kind : OneKind]

Trace(H) ==
    \E plan \in TracePlans, h \in H, max_instructions \in 0 .. MaxTrace,
       stop \in 0 .. MaxTrace, capture_regs \in BOOLEAN :
        /\ (max_instructions = 0) # (stop = 0)
        /\ FinishVal(Call(Start([plan |-> plan, env |-> DefaultEnv]),
                          "rp2350_trace",
                          <<h, max_instructions, stop, capture_regs>>),
                     "rp2350_trace", h, stop, max_instructions)

\* The wire fails once at most: no call follows the one that met a FAULT.
NextTrace ==
    \/ ~last.fault /\ Halt(DataHarts)
    \/ ~last.fault /\ EnableCache
    \/ ~last.fault /\ Trace(DataHarts)

SpecTrace == InitHart /\ [][NextTrace]_vars

InvalidateCache(H) ==
    \E h \in H :
        Finish(Ok(rp2350_invalidate_cache(Start([plan |-> NoFault,
                                                 env |-> DefaultEnv]), h)),
               "rp2350_invalidate_cache", h, 0, 0)

\* Halt, resume and the register calls on both harts, s0 the register.
NextTwo ==
    \/ Halt(Harts)
    \/ Resume(Harts)
    \/ ReadReg(Harts, {RegS0})
    \/ WriteReg(Harts, {RegS0}, {NoFault})
    \/ ReadAllRegs(Harts)
    \/ InvalidateCache(Harts)
    \/ EnableCache

SpecTwo == InitHart /\ [][NextTwo]_vars

\* Code upload over a wire that may fail once during a call, into memory
\* of which a word may be read-only.
Codes == {<<>>} \cup [1 .. 1 -> {1, 2}] \cup [1 .. MaxCode -> {1, 2}]
RomEnvs == {[DefaultEnv EXCEPT !.rom = {a}] : a \in Ram}

UploadCode ==
    \E sc \in Scenarios(MaxUploadFaultAt, OneKind, RomEnvs), code \in Codes :
        FinishLog(Call(Start(sc), "rp2350_upload_code", <<CodeBase, code>>),
                  "rp2350_upload_code", 0, CodeBase, code)

NextUpload ==
    \/ UploadCode
    \/ WriteMem32

SpecUpload == InitHart /\ [][NextUpload]_vars

\* The resource tracker.  A session acquires a slot when it connects and
\* releases it when it disconnects; the slot is the first free one, or the
\* one its configuration fixes.
FreeSlots(p) == {x \in Slots : p.owners[x] = {}}

Bind(m, s, x) ==
    Ok([m EXCEPT !.p.owners[x] = @ \cup {s}, !.p.bound[s] = {x}, !.val = x])

\* The scan of the automatic selection: block 0 first, lowest state
\* machine first.
allocate_pio_sm(m, s) ==
    IF FreeSlots(m.p) = {} THEN Fail(m, "RESOURCE_BUSY")
    ELSE Bind(m, s, CHOOSE x \in FreeSlots(m.p) :
                        \A y \in FreeSlots(m.p) : x <= y)

\* A fixed slot, bound without a look at its owner.
claim_pio_sm_unchecked(m, s, x) == Bind(m, s, x)

claim_pio_sm(m, s, x) ==
    IF m.p.owners[x] # {} THEN Fail(m, "ALREADY_IN_USE")
    ELSE Bind(m, s, x)

release_pio_sm(m, s) ==
    Ok([m EXCEPT !.p.owners = [x \in Slots |-> @[x] \ {s}],
                 !.p.bound[s] = {}])

Holders == {s \in Sessions : probe.bound[s] # {}}

\* The sessions that never disconnect connect in the order of their numbers.
Ready(s) ==
    \A t \in Sessions \ ReleasingSessions : t < s => t \in Holders

AcquireAuto ==
    \E s \in {t \in Sessions \ Holders : Ready(t)} :
        FinishVal(allocate_pio_sm(Start([plan |-> NoFault, env |-> DefaultEnv]),
                                  s),
                  "acquire_auto", s, 0, 0)

AcquireFixed ==
    \E s \in FixedSessions \ Holders, x \in Slots :
        FinishVal(claim_pio_sm(Start([plan |-> NoFault, env |-> DefaultEnv]),
                               s, x),
                  "acquire_fixed", s, x, 0)

Release ==
    \E s \in ReleasingSessions \cap Holders :
        FinishVal(release_pio_sm(Start([plan |-> NoFault, env |-> DefaultEnv]),
                                 s),
                  "release", s, 0, 0)

NextTracker ==
    \/ AcquireAuto
    \/ AcquireFixed
    \/ Release

SpecTracker == Init /\ [][NextTracker]_vars

\* Calls on either hart, in any order; the wire may fail once during a
\* register access.  The history keeps the hart-addressed accesses of each
\* call.
SelCall(f, h, args, plans) ==
    \E plan \in plans :
        FinishLog(Call(Start([plan |-> plan, env |-> DefaultEnv]), f, args),
                  f, h, 0, 0)

NextSel ==
    \/ \E h \in Harts : SelCall("rp2350_halt", h, <<h>>, {NoFault})
    \/ \E h \in Harts : SelCall("rp2350_resume", h, <<h>>, {NoFault})
    \/ \E h \in Harts : SelCall("rp2350_step", h, <<h>>, {NoFault})
    \/ \E h \in Harts : SelCall("rp2350_is_halted", h, <<h>>, {NoFault})
    \/ \E h \in Harts :
          SelCall("rp2350_read_reg", h, <<h, RegS0>>,
                  Plans(MaxSelFaultAt, OneKind))
    \/ \E h \in Harts :
          SelCall("rp2350_write_reg", h, <<h, RegS0, 1>>,
                  Plans(MaxSelFaultAt, OneKind))
    \/ \E h \in Harts :
          SelCall("rp2350_read_csr", h, <<h, CSR_DPC>>, {NoFault})

SpecSel == InitHart /\ [][NextSel]_vars

\* Single raw accesses on sessions of several retry budgets.  The wire
\* answers the attempts of the access as the kind says; the reg of a call
\* names the kind.
RetryCounts == {0, 1, 2, DefaultRetryCount}
RetryKinds == {"NONE", "FAULT", "ACKERR", "WAIT1", "WAIT2F", "WAIT4", "WAITALL"}

InitRetry ==
    /\ target \in {[Connected.t EXCEPT !.dap.retry_count = n] : n \in RetryCounts}
    /\ chip = Connected.c
    /\ probe = Connected.p
    /\ last = Result("swd_connect", 0, "NONE", 0, NoLog(NoVal(Connected)))

RawAccess(f, args, arg) ==
    \E kind \in RetryKinds :
        FinishLog(Call(Start([plan |-> [at |-> 1, kind |-> kind],
                              env |-> DefaultEnv]), f, args),
                  f, 0, kind, arg)

NextRetry ==
    \/ \E reg \in {DP_IDCODE, DP_CTRL_STAT} :
          RawAccess("swd_read_dp_raw", <<reg>>, reg)
    \/ \E w \in DpWrites : RawAccess("swd_write_dp_raw", <<w[1], w[2]>>, w[1])
    \/ \E r \in ApReads : RawAccess("swd_read_ap_raw", <<r[2], TRUE>>, r[2])
    \/ \E w \in ApWrites : RawAccess("swd_write_ap_raw", <<w[2], w[3]>>, w[2])

SpecRetry == InitRetry /\ [][NextRetry]_vars

\* Byte and halfword access to the SRAM: the four bytes of one word and
\* the last byte of the next.  The byte written has bit 7 set, the halfword
\* has two different bytes.
MemBytes == {255}
MemHalves == {258}
ByteAddrs == {CodeBase + i : i \in 0 .. 3} \cup {CodeBase + 7}

MemCall(f, addr, args, arg) ==
    FinishVal(Call(Start([plan |-> NoFault, env |-> DefaultEnv]), f, args),
              f, 0, addr, arg)

NextMem ==
    \/ \E addr \in ByteAddrs, v \in MemBytes :
          MemCall("rp2350_write_mem8", addr, <<addr, v>>, v)
    \/ \E addr \in ByteAddrs :
          MemCall("rp2350_read_mem8", addr, <<addr>>, 0)
    \/ \E addr \in ByteAddrs, v \in MemHalves :
          MemCall("rp2350_write_mem16", addr, <<addr, v>>, v)
    \/ \E addr \in ByteAddrs :
          MemCall("rp2350_read_mem16", addr, <<addr>>, 0)

SpecMem == InitHart /\ [][NextMem]_vars

\* Code execution: the wire may fail once during a call, a word of the
\* memory may be read-only, the hart may ignore the halt and resume requests.
ExecPlans ==
    {NoFault} \cup [at : {a \in 1 .. MaxExecFaultAt : a % ExecStride = 0},
                    kind : OneKind]
ExecScenarios ==
    [plan : ExecPlans, env : {DefaultEnv}]
        \cup [plan : {NoFault}, env : RomEnvs \cup HaltEnvs]
ExecCodes == {<<2, 1>>}

ExecuteCode(H) ==
    \E sc \in ExecScenarios, h \in H, code \in ExecCodes :
        FinishLog(Call(Start(sc), "rp2350_execute_code", <<h, CodeBase, code>>),
                  "rp2350_execute_code", h, CodeBase, code)

NextExec ==
    \/ ExecuteCode(DataHarts)
    \/ Halt(DataHarts)
    \/ ReadAllRegs(DataHarts)
    \/ EnableCache

SpecExec == InitHart /\ [][NextExec]_vars

\* Alternating halt / resume calls on a target that honours the requests,
\* from every session that stepping, register reads and the cache setting
\* lead to.  The arg of a halt or resume is its position in the alternating
\* sequence on its hart.
AltPosition(prev_op, h) ==
    IF last.op = prev_op /\ last.hart = h THEN last.arg + 1 ELSE 1

AltHalt(H) ==
    \E h \in H :
        /\ ~(last.op = "rp2350_halt" /\ last.hart = h)
        /\ AltPosition("rp2350_resume", h) <= MaxAlt
        /\ Finish(Call(Start([plan |-> NoFault, env |-> DefaultEnv]),
                       "rp2350_halt", <<h>>),
                  "rp2350_halt", h, 0, AltPosition("rp2350_resume", h))

AltResume(H) ==
    \E h \in H :
        /\ ~(last.op = "rp2350_resume" /\ last.hart = h)
        /\ AltPosition("rp2350_halt", h) <= MaxAlt
        /\ Finish(Call(Start([plan |-> NoFault, env |-> DefaultEnv]),
                       "rp2350_resume", <<h>>),
                  "rp2350_resume", h, 0, AltPosition("rp2350_halt", h))

IsHalted(H) ==
    \E h \in H :
        FinishVal(Call(Start([plan |-> NoFault, env |-> DefaultEnv]),
                       "rp2350_is_halted", <<h>>),
                  "rp2350_is_halted", h, 0, 0)

NextAlt ==
    \/ AltHalt(Harts)
    \/ AltResume(Harts)
    \/ IsHalted(Harts)
    \/ Step(DataHarts)
    \/ StepNoHalt(DataHarts)
    \/ ReadAllRegs(DataHarts)
    \/ EnableCache

SpecAlt == InitHart /\ [][NextAlt]_vars

-----------------------------------------------------------------------------
(* Claims on the connection and DAP interface *)

\* C1: no public DAP or DM operation puts an SWD transaction on the wire
\* while the session's connected flag is false; only swd_connect may.
C1_NoTransactionWhileDisconnected ==
    last.offline => last.op = "swd_connect"

\* C1: a DAP operation has run on a session whose connect failed.
C1_Witness ==
    /\ ~target.connected
    /\ last.op \in {"dap_read_dp", "dap_write_dp", "dap_clear_errors",
                    "dap_power_up"}

\* C2: whenever an AP access consults the bank-selection cache, the cache
\* equals the APSEL and bank last written to DP SELECT by any path.
C2_CacheMatchesSelect == ~last.stale

\* C3: every PIO acquisition of swd_connect is released: after a failed
\* connect (IDCODE read error, invalid IDCODE, power-up failure) and after a
\* disconnect the state machine is off, the program removed and
\* pio.initialized false; the session never holds more than one program.
C3_PioReleased ==
    /\ probe.programs <= 1
    /\ (\/ last.op = "swd_disconnect"
        \/ (last.op = "swd_connect"
            /\ last.err \notin {"OK", "INVALID_STATE", "RESOURCE_BUSY"}))
       => (~target.pio.initialized /\ ~probe.sm_enabled /\ probe.programs = 0)

C5_FaultNeverSilent == last.fault => last.err # "OK"

-----------------------------------------------------------------------------
(* Claims on the Debug Module driver *)

\* the calls rp2350.c refuses on a hart it records as not halted
\* (rp2350_read_pc and rp2350_write_pc are rp2350_read_csr and
\* rp2350_write_csr of dpc)
HaltedOps == {"rp2350_read_reg", "rp2350_write_reg", "rp2350_read_all_regs",
              "rp2350_read_pc", "rp2350_write_pc", "rp2350_step"}

MemOps == {"rp2350_read_mem32", "rp2350_write_mem32"}

C7_RunControlRecorded ==
    (last.op \in {"rp2350_resume", "rp2350_step", "rp2350_reset"}
     /\ last.err = "OK")
    => LET hart == target.rp2350.harts[last.hart] IN
       /\ ~hart.cache_valid
       /\ hart.halt_state_known
       /\ hart.halted = (\/ last.op = "rp2350_step"
                         \/ (last.op = "rp2350_reset" /\ last.arg = 1))

\* C7: a resume returned OK.
C7_Witness == last.op = "rp2350_resume" /\ last.err = "OK"

\* What the next call of rp2350_read_pc on this hart returns.
NextReadPc(h) ==
    Call(Machine(target, chip, probe, NoFault, DefaultEnv), "rp2350_read_pc", <<h>>)

\* What the next call of rp2350_read_reg on this hart and register returns.
NextReadReg(h, r) ==
    Call(Machine(target, chip, probe, NoFault, DefaultEnv),
         "rp2350_read_reg", <<h, r>>)

\* C8: after halt(h) returned OK or AlreadyHalted and write_pc(h, v)
\* returned OK, the next read_pc(h) returns OK and v.
C8_PcRoundTrip ==
    (last.op = "rp2350_write_pc" /\ last.err = "OK" /\ last.reg = 1)
    => /\ NextReadPc(last.hart).err = "OK"
       /\ NextReadPc(last.hart).val = last.arg

\* C8: a write of the PC returned OK right after a halt of its hart.
C8_Witness ==
    last.op = "rp2350_write_pc" /\ last.err = "OK" /\ last.reg = 1

\* C9: on a halted hart, after write_reg(h, r, v) returned OK for r in 1..31
\* the next read_reg(h, r) returns OK and v, with the cache enabled or
\* disabled, valid or not.
C9_RegRoundTrip ==
    (last.op = "rp2350_write_reg" /\ last.err = "OK" /\ last.reg \in 1 .. 31)
    => /\ NextReadReg(last.hart, last.reg).err = "OK"
       /\ NextReadReg(last.hart, last.reg).val = last.arg

\* C9: a write of a nonzero value returned OK while the hart's cache was
\* enabled and valid, and the cache answers the next read.
C9_Witness ==
    /\ last.op = "rp2350_write_reg"
    /\ last.err = "OK"
    /\ last.reg \in 1 .. 31
    /\ last.arg # 0
    /\ target.rp2350.cache_enabled
    /\ target.rp2350.harts[last.hart].cache_valid

\* C10: in every reachable state a read_reg(h, 0) that returns OK returns
\* 0, whatever write_reg(h, 0, v) came before and whether or not the GPR
\* cache answers.
C10_ZeroRegister ==
    \A h \in DataHarts :
        NextReadReg(h, 0).err = "OK" => NextReadReg(h, 0).val = 0

\* C10: a write of a nonzero value to x0 returned OK.
C10_Witness ==
    /\ last.op = "rp2350_write_reg"
    /\ last.err = "OK"
    /\ last.reg = 0
    /\ last.arg # 0

-----------------------------------------------------------------------------
(* Claims on CSR access and on the two harts *)

\* C11: a call of rp2350_read_csr or rp2350_write_csr, whether it returns
\* OK or an error, leaves every general purpose register of every hart,
\* s0 included, with the value it had before the call.  (The registers
\* change only after s0 was saved, so the calls that return before the
\* save satisfy this as well.)
C11_S0Restored ==
    [][last'.op \in {"rp2350_read_csr", "rp2350_write_csr"}
       => \A h \in Harts : chip'.harts[h].gprs = chip.harts[h].gprs]_vars

\* C11: a CSR read returned OK on a halted hart whose s0 differs from the
\* CSR's value.
C11_Witness ==
    /\ last.op = "rp2350_read_csr"
    /\ last.err = "OK"
    /\ last.reg = CSR_DPC
    /\ chip.harts[last.hart].gprs[RegS0] # chip.harts[last.hart].dpc

\* The calls that are addressed to one hart.
HartOps == {"rp2350_halt", "rp2350_resume", "rp2350_step", "rp2350_reset",
            "rp2350_read_reg", "rp2350_write_reg", "rp2350_read_all_regs",
            "rp2350_read_pc", "rp2350_write_pc", "rp2350_invalidate_cache"}

\* What the next rp2350_read_reg of s0 on hart h returns: error and value.
ReadBack(h) ==
    <<NextReadReg(h, RegS0).err, NextReadReg(h, RegS0).val>>

-----------------------------------------------------------------------------
(* Claims on tracing and code execution *)

\* C13: rp2350_trace returns n > 0 exactly when its callback was invoked n
\* times, with n at most max_instructions when that is not 0, whatever
\* failed after the first invocation; it returns a negated error exactly
\* when the callback was never invoked.
C13_TraceCount ==
    last.op = "rp2350_trace"
    => IF last.calls > 0
       THEN /\ last.err = "OK"
            /\ last.val = last.calls
            /\ last.arg > 0 => last.val <= last.arg
       ELSE last.err # "OK"

\* C13: a trace of two instructions returned 1: its callback was invoked
\* once and a FAULT ended the trace after that.
C13_Witness ==
    /\ last.op = "rp2350_trace"
    /\ last.arg = 2
    /\ last.reg = 0
    /\ last.fault
    /\ last.calls = 1
    /\ last.val = 1

-----------------------------------------------------------------------------
(* Claims on code upload and execution *)

\* the address of word i (from 1) of an upload at CodeBase
WordAddr(i) == CodeBase + (i - 1) * 4

\* C14: rp2350_upload_code writes word i and reads it back before it writes
\* word i + 1: its memory accesses are write 1, read 1, write 2, read 2, ...,
\* each begun only after every earlier one returned OK and every earlier
\* read returned the word written.  It returns OK only if every word was
\* written and read back equal, and VERIFY at the first read-back that
\* differs, after which no later word is written: the memory of the words
\* past the last access is unchanged.
C14_UploadVerifies ==
    [][last'.op = "rp2350_upload_code" =>
         LET code == last'.arg
             log == last'.log
             done == (Len(log) + 1) \div 2
         IN /\ Len(log) <= 2 * Len(code)
            /\ \A k \in 1 .. Len(log) :
                  /\ log[k][1] = (IF k % 2 = 1 THEN "write" ELSE "read")
                  /\ log[k][2] = (k + 1) \div 2
                  /\ k < Len(log) => log[k][3] = "OK"
                  /\ (k < Len(log) /\ k % 2 = 0) => log[k][4] = code[k \div 2]
            /\ last'.err = "OK" =>
                  /\ Len(code) > 0
                  /\ Len(log) = 2 * Len(code)
                  /\ log[Len(log)][3] = "OK"
                  /\ log[Len(log)][4] = code[Len(code)]
            /\ last'.err = "VERIFY" <=>
                  /\ Len(log) > 0
                  /\ Len(log) % 2 = 0
                  /\ log[Len(log)][3] = "OK"
                  /\ log[Len(log)][4] # code[done]
            /\ \A j \in (done + 1) .. Len(code) :
                  chip'.mem[WordAddr(j)] = chip.mem[WordAddr(j)]]_vars

\* The first word of two is read back different: the second keeps the word
\* it held, which is not the one of the code.
C14_Witness ==
    /\ last.op = "rp2350_upload_code"
    /\ last.err = "VERIFY"
    /\ Len(last.arg) = 2
    /\ Len(last.log) = 2
    /\ chip.mem[WordAddr(2)] # last.arg[2]
\* The positions of the resume requests in a log.
ResumeReqs(log) == {k \in 1 .. Len(log) : log[k][1] = "resumereq"}

\* C15: rp2350_execute_code issues the resume request for hart h only
\* after every code word was written and read back equal, a read-back of
\* the PC returned entry_point, and with the hart halted, DPC holding
\* entry_point and the memory holding the code when the request arrives;
\* when it returns OK the request was issued and the session records the
\* hart as known running with its register cache invalid.
C15_ResumeAfterVerify ==
    last.op = "rp2350_execute_code" =>
        LET code == last.arg
            log == last.log
            h == last.hart
        IN /\ \A k \in ResumeReqs(log) :
                 /\ k = Len(log)
                 /\ k = 2 * Len(code) + 2
                 /\ \A i \in 1 .. Len(code) :
                       /\ log[2 * i - 1] = <<"write", i, "OK">>
                       /\ log[2 * i] = <<"read", i, "OK", code[i]>>
                       /\ log[k][5][WordAddr(i)] = code[i]
                 /\ log[k - 1] = <<"pc", "OK", last.reg>>
                 /\ log[k][2] = h
                 /\ log[k][3] = FALSE
                 /\ log[k][4] = last.reg
           /\ last.err = "OK" =>
                 /\ ResumeReqs(log) # {}
                 /\ ~target.rp2350.harts[h].halted
                 /\ target.rp2350.harts[h].halt_state_known
                 /\ ~target.rp2350.harts[h].cache_valid

\* Two words are executed on a hart that ran: it runs at the entry point.
C15_Witness ==
    /\ last.op = "rp2350_execute_code"
    /\ last.err = "OK"
    /\ Len(last.arg) = 2
    /\ ~last.fault
    /\ chip.harts[last.hart].running
    /\ chip.harts[last.hart].dpc = last.reg
    /\ chip.mem[WordAddr(1)] = 2
-----------------------------------------------------------------------------
(* Claims on run control *)

\* What rp2350_is_halted(h) returns when called in the current state.
IsHaltedNow(h) ==
    Call(Machine(target, chip, probe, NoFault, DefaultEnv),
         "rp2350_is_halted", <<h>>).val

\* C16: in a sequence of alternating halt(h) / resume(h) calls on an
\* initialised session whose target honours the requests, every halt
\* returns OK or ALREADY_HALTED and every resume returns OK, and
\* rp2350_is_halted(h) is true after each halt and false after each resume.
C16_AlternatingHaltResume ==
    /\ last.op = "rp2350_halt" =>
          /\ last.err \in {"OK", "ALREADY_HALTED"}
          /\ IsHaltedNow(last.hart) = 1
    /\ last.op = "rp2350_resume" =>
          /\ last.err = "OK"
          /\ IsHaltedNow(last.hart) = 0

\* The sixth call of an alternating sequence, a resume, has run the hart.
C16_Witness ==
    /\ last.op = "rp2350_resume"
    /\ last.arg = MaxAlt
    /\ last.err = "OK"
    /\ last.wire
    /\ chip.harts[last.hart].running
\* C17: rp2350_halt on a hart recorded as known halted returns
\* ALREADY_HALTED and rp2350_resume on a hart recorded as known running
\* returns OK; in both cases no SWD transaction is issued and neither the
\* session nor the device changes.
C17_FastPaths ==
    [][/\ (/\ last'.op = "rp2350_halt"
           /\ target.rp2350.harts[last'.hart].halt_state_known
           /\ target.rp2350.harts[last'.hart].halted)
          => /\ last'.err = "ALREADY_HALTED"
             /\ ~last'.wire
             /\ target' = target /\ chip' = chip /\ probe' = probe
       /\ (/\ last'.op = "rp2350_resume"
           /\ target.rp2350.harts[last'.hart].halt_state_known
           /\ ~target.rp2350.harts[last'.hart].halted)
          => /\ last'.err = "OK"
             /\ ~last'.wire
             /\ target' = target /\ chip' = chip /\ probe' = probe]_vars

\* A resume took the shortcut on a hart recorded running whose register
\* cache is still marked valid.
C17_Witness ==
    /\ last.op = "rp2350_resume"
    /\ last.err = "OK"
    /\ ~last.wire
    /\ target.rp2350.harts[last.hart].halt_state_known
    /\ ~target.rp2350.harts[last.hart].halted
    /\ target.rp2350.harts[last.hart].cache_valid
-----------------------------------------------------------------------------
(* Claims on the wire engine *)

\* The malformed ACKs a log records.
BadAcks(log) == {k \in 1 .. Len(log) : log[k][1] = "ack"}

\* C18: for every 3-bit ACK other than OK (1), WAIT (2) and FAULT (4) the
\* wire engine has re-driven a line reset when it returns, and the access
\* returns PROTOCOL.
C18_MalformedAckResets ==
    last.op \in {"swd_io_raw_read", "swd_io_raw_write"} =>
        \A k \in BadAcks(last.log) :
            /\ last.log[k][2] \in (0 .. 7) \ {1, 2, 4}
            /\ last.err = "PROTOCOL"
            /\ last.log[k][3]

\* A transaction was answered with ACK 7.
C18_Witness ==
    /\ last.op = "swd_io_raw_read"
    /\ last.err = "PROTOCOL"
    /\ last.log = <<(<<"ack", 7, TRUE>>)>>

\* The data phases a log records.
DataPhases(log) == {k \in 1 .. Len(log) : log[k][1] = "data"}

\* C19: when the parity bit received with a data word is not the parity of
\* the 32 data bits received, the read returns PARITY and the caller's
\* destination keeps the word it held; a single flipped bit among the 33
\* is such a case.
C19_ParityMismatch ==
    last.op = "swd_io_raw_read" =>
        \A k \in DataPhases(last.log) :
            calculate_parity(last.log[k][2]) # last.log[k][3]
                => last.err = "PARITY" /\ last.val = last.arg

\* Bit 31 of the word arrived flipped: the destination keeps its word.
C19_Witness ==
    /\ last.op = "swd_io_raw_read"
    /\ last.err = "PARITY"
    /\ last.arg = 1
    /\ last.val = 1
    /\ \E k \in DataPhases(last.log) : last.log[k][2] < 0 /\ last.log[k][3] = 0
\* The DESIGNER field of a DPIDR word.
Designer(idcode) == Field(idcode, 1, 11)

\* C20: swd_connect sets connected only if the IDCODE read returned OK and
\* the word read has a non-zero designer field; if the read is not OK or
\* the designer field is zero it fails with PROTOCOL and connected stays
\* false.
C20_ConnectChecksIdcode ==
    (last.op = "swd_connect" /\ Len(last.log) > 0) =>
        LET err == last.log[1][2]
            idcode == last.log[1][3]
        IN /\ target.connected => (err = "OK" /\ Designer(idcode) # 0)
           /\ (err # "OK" \/ Designer(idcode) = 0)
                 => (last.err = "PROTOCOL" /\ ~target.connected)

\* The IDCODE read was acknowledged FAULT.
C20_Witness ==
    /\ last.op = "swd_connect"
    /\ last.log = <<(<<"idcode", "FAULT", 0>>)>>
    /\ ~target.connected
-----------------------------------------------------------------------------
(* Claims on abstract commands and polling *)

\* C21: whenever an operation returns ABSTRACT_CMD, the cmderr field of
\* ABSTRACTCS has been cleared before the operation returned.
C21_CmderrCleared == last.err = "ABSTRACT_CMD" => chip.cmderr = 0

\* An abstract command failed on a running hart and the error was cleared.
C21_Witness ==
    /\ last.op = "rp2350_write_reg"
    /\ last.err = "ABSTRACT_CMD"
    /\ ~last.fault
    /\ chip.harts[last.hart].running
    /\ chip.cmderr = 0
\* what the DMSTATUS poll of the last call waited for, as the hart is now
Awaited ==
    LET running == chip.harts[last.hart].running
    IN CASE last.op \in {"rp2350_halt", "rp2350_step"} -> ~running
         [] last.op = "rp2350_resume" -> running
         [] last.op = "rp2350_reset" -> IF last.arg = 1 THEN ~running ELSE running
         [] OTHER -> TRUE

\* C22: every polling loop is bounded: one call makes at most 10 reads in
\* a DMSTATUS poll, at most 100 in the ABSTRACTCS.busy wait and at most 10
\* in the power-up acknowledge poll.  A call that began a poll whose
\* awaited condition never appears returns TIMEOUT: the busy wait on a
\* Debug Module that stays busy, the acknowledge poll on a target that
\* never acknowledges, the DMSTATUS poll for a state the hart does not
\* take.
C22_PollsBounded ==
    /\ last.polls.pwr <= PowerPollLimit
    /\ last.polls.abs <= AbstractPollLimit
    /\ last.polls.dm <= DmstatusPollLimit
    /\ last.polls.exhausted # {} => last.err = "TIMEOUT"
    /\ (last.reg = "busy" /\ last.polls.abs > 0) => last.err = "TIMEOUT"
    /\ (last.reg = "nopower" /\ last.polls.pwr > 0) => last.err = "TIMEOUT"
    /\ (last.polls.dm > 0 /\ ~Awaited) => last.err = "TIMEOUT"

\* A register write waited for a busy Debug Module through 100 reads.
C22_Witness ==
    /\ last.op = "rp2350_write_reg"
    /\ last.err = "TIMEOUT"
    /\ last.polls.abs = AbstractPollLimit
    /\ last.polls.exhausted = {"abs"}
(* Claims on the recorded halt state                                       *)

\* the calls that are refused on a hart that is not halted, and the query
HaltReaders == {"rp2350_read_reg", "rp2350_write_reg", "rp2350_read_csr",
                "rp2350_write_csr", "rp2350_step", "rp2350_is_halted"}

ReadDmstatus(hd) == \E x \in hd : x.reg = DM_DMSTATUS

\* C23: a call that depends on whether hart h is halted, made on an
\* initialised session while h's halt_state_known is false, reads DMSTATUS
\* before it acts.
C23_UnknownStateQueried ==
    [][(/\ last'.op \in HaltReaders
        /\ target.connected
        /\ target.rp2350.initialized
        /\ ~target.rp2350.harts[last'.hart].halt_state_known)
       => ReadDmstatus(last'.hd)]_vars

\* rp2350_is_halted found the state unknown and read DMSTATUS.
C23_Witness ==
    /\ last.op = "rp2350_is_halted"
    /\ ReadDmstatus(last.hd)
    /\ target.rp2350.harts[last.hart].halt_state_known
\* the DMSTATUS reads of an rp2350_is_halted(h) made now
IsHaltedReads(h) ==
    Call(Machine(target, chip, probe, NoFault, DefaultEnv),
         "rp2350_is_halted", <<h>>).hd

\* C24: after a successful rp2350_resume(h) the halt state of h is unknown
\* (halt_state_known = false), and the next rp2350_is_halted(h) reads
\* DMSTATUS again instead of returning the stored value.
C24_ResumeForgetsState ==
    (last.op = "rp2350_resume" /\ last.err = "OK")
        => /\ ~target.rp2350.harts[last.hart].halt_state_known
           /\ ReadDmstatus(IsHaltedReads(last.hart))

\* A resume request was written and the hart was seen running.
C24_Witness ==
    /\ last.op = "rp2350_resume"
    /\ last.err = "OK"
    /\ last.polls.dm > 0
    /\ chip.harts[last.hart].running
-----------------------------------------------------------------------------
(* Claims on byte and halfword memory access                               *)

\* byte i (0 the least significant) of the SRAM word at address a
MemByte(mem, a, i) == Field(mem[a], 8 * i, 8)

\* the memory after the n bytes from address addr take the value v,
\* least significant byte first; every other byte as before
Stored(mem, addr, n, v) ==
    \A a \in Ram, i \in 0 .. 3 :
        MemByte(chip'.mem, a, i) =
            IF a + i >= addr /\ a + i < addr + n
            THEN Field(v, 8 * (a + i - addr), 8)
            ELSE MemByte(mem, a, i)

\* the n bytes at address addr as a number, least significant byte first
Loaded(mem, addr, n) ==
    LET a == aligned_addr(addr)
    IN IF n = 1 THEN MemByte(mem, a, addr % 4)
       ELSE MemByte(mem, a, addr % 4) + 256 * MemByte(mem, a, (addr % 4) + 1)

\* C25: write_mem8(a, v) changes only byte a & 3 of the word containing a,
\* little-endian, and read_mem8(a) returns that byte, so that it returns v
\* after the write; write_mem16 and read_mem16 do the same with the
\* addressed half of the word, for every 2-byte-aligned a.
C25_ByteAndHalfAccess ==
    [][/\ last'.op = "rp2350_write_mem8"
            => last'.err = "OK" /\ Stored(chip.mem, last'.reg, 1, last'.arg)
       /\ last'.op = "rp2350_read_mem8"
            => /\ last'.err = "OK" /\ chip'.mem = chip.mem
               /\ last'.val = Loaded(chip.mem, last'.reg, 1)
       /\ (last'.op = "rp2350_write_mem16" /\ last'.reg % 2 = 0)
            => last'.err = "OK" /\ Stored(chip.mem, last'.reg, 2, last'.arg)
       /\ (last'.op = "rp2350_read_mem16" /\ last'.reg % 2 = 0)
            => /\ last'.err = "OK" /\ chip'.mem = chip.mem
               /\ last'.val = Loaded(chip.mem, last'.reg, 2)]_vars

\* A byte with bit 7 set was read from the top of a word whose other
\* bytes hold other values.
C25_Witness ==
    /\ last.op = "rp2350_read_mem8"
    /\ last.reg = CodeBase + 3
    /\ last.val = 255
    /\ MemByte(chip.mem, CodeBase, 1) = 1
    /\ MemByte(chip.mem, CodeBase, 2) = 2
    /\ MemByte(chip.mem, CodeBase + 4, 3) = 255
-----------------------------------------------------------------------------
(* Claims on the resource tracker                                          *)

\* C26: no two sessions own the same PIO block / state machine slot at the
\* same time and the tracker registers exactly the owner of each slot; an
\* acquisition of a slot that another session owns fails with an error and
\* changes nothing; automatic selection binds the first free slot, and
\* fails when none is free; at most eight sessions hold slots.
C26_SlotsExclusive ==
    [][/\ \A s1, s2 \in Sessions :
              s1 # s2 => probe'.bound[s1] \cap probe'.bound[s2] = {}
       /\ \A x \in Slots, s \in Sessions :
              s \in probe'.owners[x] <=> x \in probe'.bound[s]
       /\ Cardinality({s \in Sessions : probe'.bound[s] # {}})
              <= PioBlocks * SmPerBlock
       /\ last'.op = "acquire_fixed" =>
              IF probe.owners[last'.reg] # {}
              THEN last'.err # "OK" /\ probe' = probe
              ELSE last'.err = "OK" /\ probe'.bound[last'.hart] = {last'.reg}
       /\ last'.op = "acquire_auto" =>
              IF FreeSlots(probe) = {}
              THEN last'.err # "OK" /\ probe' = probe
              ELSE /\ last'.err = "OK"
                   /\ \E x \in FreeSlots(probe) :
                         /\ probe'.bound[last'.hart] = {x}
                         /\ \A y \in FreeSlots(probe) : x <= y]_vars

\* A ninth session was refused while eight sessions held the eight slots,
\* one of them a slot it had fixed.
C26_Witness ==
    /\ last.op = "acquire_auto"
    /\ last.err = "RESOURCE_BUSY"
    /\ FreeSlots(probe) = {}
    /\ probe.bound[1] = {5}
-----------------------------------------------------------------------------
(* Claims on the DAP layer's transactions                                  *)

\* C27: every dap_write_ap that returns OK has read DP RDBUFF after its AP
\* write, inside the call, so that the posted write is flushed when the
\* call returns.
C27_ApWriteFlushed ==
    (last.op = "dap_write_ap" /\ last.err = "OK") => ~last.posted

\* rp2350_init returned OK: the AP writes of its handshake and of the SBA
\* set-up were followed by RDBUFF reads.
C27_Witness ==
    /\ last.op = "rp2350_init"
    /\ last.err = "OK"
    /\ last.wire
    /\ ~last.posted
\* the attempts (from 1) of an access answered as kind, within a budget of
\* n, that are not answered WAIT
Decisive(kind, n) == {i \in 1 .. n : AckOf(kind, i - 1) # SWD_ACK_WAIT}

\* C28: a raw DP / AP access makes at most retry_count attempts on the
\* wire, makes a further attempt only after an attempt answered WAIT, and
\* returns the result of the first attempt that is not answered WAIT.
C28_RetryOnlyOnWait ==
    LET att == last.polls.att
        n == target.dap.retry_count
        first == CHOOSE i \in Decisive(last.reg, n) :
                     \A j \in Decisive(last.reg, n) : i <= j
    IN last.op \in {"swd_read_dp_raw", "swd_write_dp_raw",
                    "swd_read_ap_raw", "swd_write_ap_raw"} =>
          /\ Len(att) <= n
          /\ \A i \in 1 .. Len(att) :
                 /\ att[i] = AckOf(last.reg, i - 1)
                 /\ i < Len(att) => att[i] = SWD_ACK_WAIT
          /\ IF Decisive(last.reg, n) = {} THEN Len(att) = n
             ELSE /\ Len(att) = first
                  /\ last.err = swd_ack_to_error(att[first])

\* The fifth attempt of an access was the first not answered WAIT.
C28_Witness ==
    /\ last.op = "swd_write_dp_raw"
    /\ last.reg = "WAIT4"
    /\ Len(last.polls.att) = DefaultRetryCount
    /\ last.err = "OK"
-----------------------------------------------------------------------------
(* Claims on hart selection and CSR access                                 *)

\* C29: every access of a call on behalf of hart h that addresses the
\* selected hart (a write of COMMAND, for an abstract command or a program
\* buffer execution, and a read of DMSTATUS) arrives while the last write
\* of DMCONTROL holds dmactive = 1 and hartsel = h.
C29_HartSelected ==
    \A x \in last.hd : x.dmactive /\ x.hartsel = last.hart

\* A CSR of hart 1 was read through the program buffer after a call on
\* hart 0.
C29_Witness ==
    /\ last.op = "rp2350_read_csr"
    /\ last.hart = 1
    /\ last.err = "OK"
    /\ \E x \in last.hd : x.reg = DM_COMMAND
    /\ target.rp2350.harts[0].halted
\* C30: rp2350_read_csr(h, csr) that returns OK on a halted hart returns
\* the value the hart holds in that CSR, whether the register cache is
\* enabled or disabled, valid or invalid.
C30_CsrReadCurrent ==
    [][(/\ last'.op = "rp2350_read_csr"
        /\ last'.err = "OK"
        /\ ~chip.harts[last'.hart].running)
       => last'.val = ReadCsr(chip.harts[last'.hart], last'.reg)]_vars

\* With the cache enabled and not valid, a CSR read returned the CSR's
\* value, which differs from s0.
C30_Witness ==
    /\ last.op = "rp2350_read_csr"
    /\ last.err = "OK"
    /\ target.rp2350.cache_enabled
    /\ ~target.rp2350.harts[last.hart].cache_valid
    /\ last.val = ReadCsr(chip.harts[last.hart], last.reg)
    /\ last.val # chip.harts[last.hart].gprs[RegS0]
-----------------------------------------------------------------------------
(* Single step                                                             *)

\* rp2350_step on a hart whose registers the session may cache and whose s0
\* and DCSR the debugger has written, over a wire that may fail once around
\* the DMCONTROL writes of the step, on a hart that may not halt after the
\* instruction.  The arg of a step is the access that failed, 0 for none.
StepDcsrs == {3}

StepPlans == {NoFault} \cup [at : StepFaultFrom .. MaxStepFaultAt, kind : OneKind]

StepCall ==
    \E plan \in StepPlans, e \in {DefaultEnv} \cup StepEnvs, h \in DataHarts :
        /\ plan = NoFault \/ e = DefaultEnv
        /\ FinishLog(Call(Start([plan |-> plan, env |-> e]),
                          "rp2350_step", <<h>>),
                     "rp2350_step", h, 0, plan.at)

ResumeCall ==
    \E h \in DataHarts :
        FinishLog(Call(Start([plan |-> NoFault, env |-> DefaultEnv]),
                       "rp2350_resume", <<h>>),
                  "rp2350_resume", h, 0, 0)

WriteDcsr ==
    \E h \in DataHarts, v \in StepDcsrs :
        Finish(Call(Start([plan |-> NoFault, env |-> DefaultEnv]),
                    "write_dcsr", <<h, v>>),
               "write_dcsr", h, 0, v)

NextStep ==
    \/ Halt(DataHarts)
    \/ ResumeCall
    \/ StepCall
    \/ WriteReg(DataHarts, {RegS0}, {NoFault})
    \/ WriteDcsr
    \/ ReadAllRegs(DataHarts)
    \/ EnableCache

SpecStep == InitHart /\ [][NextStep]_vars

ResumeRequests(log) ==
    Cardinality({i \in DOMAIN log : log[i][1] = "resumereq"})

\* C31: after rp2350_step(h) returns OK the hart is halted, its register
\* cache is invalid, the call issued exactly one resume request, and the
\* hart's DCSR is what it was immediately before the call.
C31_StepRestoresDcsr ==
    [][(last'.op = "rp2350_step" /\ last'.err = "OK")
       => /\ target'.rp2350.harts[last'.hart].halted
          /\ ~chip'.harts[last'.hart].running
          /\ ~target'.rp2350.harts[last'.hart].cache_valid
          /\ ResumeRequests(last'.log) = 1
          /\ chip'.harts[last'.hart].dcsr = chip.harts[last'.hart].dcsr]_vars

\* A step returned OK with the cache disabled, on a hart whose DCSR is not
\* zero and differs from s0, and the DCSR is restored.
C31_Witness ==
    /\ last.op = "rp2350_step"
    /\ last.err = "OK"
    /\ ~target.rp2350.cache_enabled
    /\ ResumeRequests(last.log) = 1
    /\ chip.harts[last.hart].dcsr = 3
    /\ chip.harts[last.hart].gprs[RegS0] = 1
    /\ chip.harts[last.hart].dpc = 4

\* C40: a rp2350_step(h) that returns an error after it has set the step
\* bit of DCSR (a DMCONTROL write failed, or the hart did not halt within
\* the poll) does not leave the step bit set.
C40_StepBitNotLeft ==
    [][(/\ last'.op = "rp2350_step"
        /\ last'.err # "OK"
        /\ Bit(chip.harts[last'.hart].dcsr, 2) = 0)
       => Bit(chip'.harts[last'.hart].dcsr, 2) = 0]_vars

\* A step failed at its second DMCONTROL write, after it had written DCSR.
C40_Witness ==
    /\ last.op = "rp2350_step"
    /\ last.err = "FAULT"
    /\ last.arg = 106
    /\ ~target.rp2350.cache_enabled
    /\ target.rp2350.harts[last.hart].halted
-----------------------------------------------------------------------------
(* The request byte                                                        *)

\* make_swd_request for every APnDP, RnW and uint8_t register address.  The
\* hart of the call holds APnDP, its arg RnW, its reg the address and its
\* val the request byte.
RequestAddrs == 0 .. 255

MakeSwdRequest ==
    \E APnDP \in BOOLEAN, RnW \in BOOLEAN, addr \in RequestAddrs :
        /\ last' = [last EXCEPT !.op = "make_swd_request",
                                !.hart = B2N(APnDP),
                                !.arg = B2N(RnW),
                                !.reg = addr,
                                !.val = make_swd_request(APnDP, RnW, addr)]
        /\ UNCHANGED <<target, chip, probe>>

NextRequest == MakeSwdRequest

SpecRequest == Init /\ [][NextRequest]_vars

Xor(a, b) == (a + b) % 2

\* C32: for every APnDP, RnW and register address the request byte has
\* bit 0 (Start) = 1, bit 1 = APnDP, bit 2 = RnW, bit 3 = A2, bit 4 = A3,
\* bit 5 = APnDP xor RnW xor A2 xor A3, bit 6 (Stop) = 0, bit 7 (Park) = 1.
C32_RequestByte ==
    last.op = "make_swd_request"
    => LET A2 == Bit(last.reg, 2)
           A3 == Bit(last.reg, 3)
       IN /\ last.val \in 0 .. 255
          /\ Bit(last.val, 0) = 1
          /\ Bit(last.val, 1) = last.hart
          /\ Bit(last.val, 2) = last.arg
          /\ Bit(last.val, 3) = A2
          /\ Bit(last.val, 4) = A3
          /\ Bit(last.val, 5) = Xor(Xor(last.hart, last.arg), Xor(A2, A3))
          /\ Bit(last.val, 6) = 0
          /\ Bit(last.val, 7) = 1

\* The request of an AP read of DRW (address 0x0C): 0x9F.
C32_Witness ==
    /\ last.op = "make_swd_request"
    /\ last.hart = 1
    /\ last.arg = 1
    /\ last.reg = 12
    /\ last.val = 159
-----------------------------------------------------------------------------
(* The register cache                                                      *)

\* Register reads on a hart whose registers the session may cache, among
\* register writes, PC accesses and program buffer executions.  The program
\* is `csrr s0, dpc; ebreak'.
ProgbufInsns == {INSN_CSRR_S0 + CSR_DPC * Pow2(20)}

ReadRegVal(H, R) ==
    \E h \in H, r \in R :
        FinishVal(Call(Start([plan |-> NoFault, env |-> DefaultEnv]),
                       "rp2350_read_reg", <<h, r>>),
                  "rp2350_read_reg", h, r, 0)

ExecuteProgbuf(H) ==
    \E h \in H, insn \in ProgbufInsns :
        Finish(Call(Start([plan |-> NoFault, env |-> DefaultEnv]),
                    "rp2350_execute_progbuf", <<h, insn>>),
               "rp2350_execute_progbuf", h, 0, insn)

NextCache ==
    \/ Halt(DataHarts)
    \/ Resume(DataHarts)
    \/ EnableCache
    \/ ReadAllRegs(DataHarts)
    \/ ReadRegVal(DataHarts, DataRegs)
    \/ WriteReg(DataHarts, {RegS0}, {NoFault})
    \/ ReadPc(DataHarts)
    \/ WritePc(DataHarts)
    \/ ExecuteProgbuf(DataHarts)

SpecCache == InitHart /\ [][NextCache]_vars

\* C33: a rp2350_read_reg(h, r) that is answered from the register cache
\* (it returns OK without a transaction on the wire) returns the value
\* register x_r of hart h holds, whatever calls came before.
C33_CacheHitCurrent ==
    [][(/\ last'.op = "rp2350_read_reg"
        /\ last'.err = "OK"
        /\ ~last'.wire)
       => last'.val = ReadGpr(chip.harts[last'.hart], last'.reg)]_vars

\* s0 was read from the cache after a write of s0 and an access of the PC,
\* and the value is the hart's.
C33_Witness ==
    /\ last.op = "rp2350_read_reg"
    /\ last.err = "OK"
    /\ ~last.wire
    /\ last.reg = RegS0
    /\ last.val = 1
    /\ chip.harts[last.hart].gprs[RegS0] = 1
    /\ chip.harts[last.hart].dpc = 4
-----------------------------------------------------------------------------
(* Claims on the power-up requests, the destination of reads and the       *)
(* state kept across connections                                           *)

\* The last CTRL/STAT write holds CDBGPWRUPREQ and CSYSPWRUPREQ.
PowerRequested(c) == Bit(c.ctrlstat, 28) = 1 /\ Bit(c.ctrlstat, 30) = 1

\* C34: while dap.powered is true the last value written to DP CTRL/STAT
\* has CDBGPWRUPREQ (bit 28) and CSYSPWRUPREQ (bit 30) set.  No call of the
\* driver, dap_clear_errors included, takes a powered session whose
\* requests stand to a powered session whose requests are withdrawn; a
\* CTRL/STAT write the caller makes itself through dap_write_dp aside.
C34_PowerRequestsKept ==
    [][(/\ target'.dap.powered
        /\ target.dap.powered => PowerRequested(chip)
        /\ last'.op # "dap_write_dp")
       => PowerRequested(chip')]_vars

\* The Debug Module was initialised on a powered session and the requests
\* stand.
C34_Witness ==
    /\ last.op = "rp2350_init"
    /\ last.err = "OK"
    /\ target.dap.powered
    /\ PowerRequested(chip)

\* C35: no read transaction starts with a null destination for the data
\* word: every swd_io_raw with write = false that a call makes, through
\* swd_read_dp_raw or swd_read_ap_raw, carries a place for the word, the DM
\* status read of rp2350_init included.
C35_ReadsHaveDestination ==
    \A i \in DOMAIN last.log : last.log[i][1] # "nulldst"

\* A call read DMSTATUS through swd_read_ap_raw and swd_read_dp_raw, each
\* with a destination.
C35_Witness ==
    /\ last.op = "rp2350_is_halted"
    /\ last.err = "OK"
    /\ last.wire
    /\ \E x \in last.hd : x.reg = DM_DMSTATUS
    /\ \A i \in DOMAIN last.log : last.log[i][1] # "nulldst"

\* C36: in every reachable state cache_valid[h] implies that hart h is
\* recorded as known halted (halt_state_known[h] and halted[h]), also after
\* a call that failed part-way, such as a step whose halt poll timed out.
C36_CacheValidOnlyHalted ==
    \A h \in Harts :
        target.rp2350.harts[h].cache_valid
        => /\ target.rp2350.harts[h].halt_state_known
           /\ target.rp2350.harts[h].halted

\* A reset that halts the hart again returned OK on a session that had a
\* valid cache, and the record is halted with the cache invalid; the cache
\* is then filled again.
C36_Witness ==
    /\ last.op = "rp2350_read_all_regs"
    /\ last.err = "OK"
    /\ target.rp2350.harts[last.hart].cache_valid
    /\ target.rp2350.harts[last.hart].halt_state_known
    /\ target.rp2350.harts[last.hart].halted
    /\ ~chip.harts[last.hart].running

\* C37: sba_initialized is true only while the Debug Module is initialised
\* for the current connection: it is false once swd_disconnect has
\* returned, and until a rp2350_init of the new connection has set it.
C37_SbaOfThisConnection ==
    target.rp2350.sba_initialized
    => target.connected /\ target.rp2350.initialized

\* The Debug Module and the System Bus Access were initialised on the
\* first connection.
C37_Witness ==
    /\ last.op = "rp2350_init"
    /\ last.err = "OK"
    /\ target.connected
    /\ target.rp2350.initialized
    /\ target.rp2350.sba_initialized
    /\ chip.sbreadonaddr
-----------------------------------------------------------------------------
(* Reconnection                                                            *)

\* AP accesses and rp2350_init around a disconnect and a connect whose line
\* reset returns DP SELECT to its reset value.
ResetEnvs == {[DefaultEnv EXCEPT !.selreset = TRUE]}

ConnectReset ==
    \E e \in ResetEnvs :
        Finish(Call(Start([plan |-> NoFault, env |-> e]), "swd_connect", <<>>),
               "swd_connect", 0, 0, 0)

NextReconnect ==
    \/ Disconnect
    \/ ConnectReset
    \/ DapReadAp
    \/ DapWriteAp
    \/ Rp2350Init

SpecReconnect == Init /\ [][NextReconnect]_vars

\* C38: after swd_disconnect and a successful swd_connect whose line reset
\* returned DP SELECT to its reset value, the first dap_read_ap or
\* dap_write_ap writes DP SELECT before its AP transaction: it does not
\* rely on the bank selection cached during the earlier connection.
C38_SelectAfterReconnect ==
    [][(/\ last.op = "swd_connect"
        /\ last.err = "OK"
        /\ last'.op \in {"dap_read_ap", "dap_write_ap"}
        /\ last'.wire)
       => ~last'.stale]_vars

\* The first AP access of a connection went to the RISC-V AP: SELECT was
\* written for it.
C38_Witness ==
    /\ last.op = "dap_write_ap"
    /\ last.err = "OK"
    /\ ~last.stale
    /\ chip.sel.apsel = AP_RISCV
    /\ chip.sel.bank = 0
    /\ target.dap.ctrlsel
    /\ ~target.rp2350.sba_initialized
-----------------------------------------------------------------------------
(* Byte and halfword writes beside a running hart                          *)

\* The byte the hart stores, and where: to one of the two middle bytes of
\* the word.  The debugger writes the first and the last byte of the first
\* word and its two halves.
HartBytes == {170}
HartStores == {<<i, b>> : i \in 1 .. 2, b \in HartBytes}
RaceAddrs == {CodeBase, CodeBase + 2, CodeBase + 3}
StoreEnvs == {[DefaultEnv EXCEPT !.store = st] : st \in HartStores}

RaceCall(f, addr, v) ==
    \E env \in {DefaultEnv} \cup StoreEnvs :
        FinishLog(Call(Start([plan |-> NoFault, env |-> env]), f, <<addr, v>>),
                  f, 0, addr, v)

\* The hart stores while no call of the debugger is under way.
HartRuns ==
    \E word \in {CodeBase}, env \in StoreEnvs :
        /\ \E h \in Harts : chip.harts[h].running
        /\ FinishLog(HartStore(Start([plan |-> NoFault, env |-> env]), word),
                     "hart_store", 0, word + env.store[1], env.store[2])

NextRace ==
    \/ \E addr \in RaceAddrs, v \in MemBytes :
          RaceCall("rp2350_write_mem8", addr, v)
    \/ \E addr \in RaceAddrs, v \in MemHalves :
          RaceCall("rp2350_write_mem16", addr, v)
    \/ HartRuns

SpecRace == InitHart /\ [][NextRace]_vars

\* the stores of the hart that landed during the call
StoresIn(log) == {log[i] : i \in {j \in 1 .. Len(log) : log[j][1] = "store"}}

\* C39: rp2350_write_mem8 and rp2350_write_mem16 are a read of the containing
\* word followed by a write-back of the whole word, and they are not atomic
\* with respect to a running hart: when the call returns OK the addressed
\* bytes hold the new value and every other byte of the memory holds the
\* value it had when the call began, so that a store of the hart to the word
\* that lands between the read and the write-back is lost; a store of the
\* hart outside a call changes its byte alone.
C39_WriteBackOverwrites ==
    [][/\ last'.op = "rp2350_write_mem8"
            => last'.err = "OK" /\ Stored(chip.mem, last'.reg, 1, last'.arg)
       /\ (last'.op = "rp2350_write_mem16" /\ last'.reg % 2 = 0)
            => last'.err = "OK" /\ Stored(chip.mem, last'.reg, 2, last'.arg)
       /\ last'.op = "hart_store"
            => Stored(chip.mem, last'.reg, 1, last'.arg)]_vars

\* The hart stored 170 to byte 1 of the word while rp2350_write_mem8 wrote
\* byte 3: byte 1 holds the value the debugger had read.
C39_Witness ==
    /\ last.op = "rp2350_write_mem8"
    /\ last.err = "OK"
    /\ last.reg = CodeBase + 3
    /\ <<"store", CodeBase, 1, 170>> \in StoresIn(last.log)
    /\ MemByte(chip.mem, CodeBase, 1) = 1
    /\ MemByte(chip.mem, CodeBase, 3) = 255

\* C39 as stated: a store of the hart to other bytes of the word between
\* the read and the write-back of rp2350_write_mem8 or rp2350_write_mem16
\* is not lost.
C39_HartStoreKept ==
    [][(last'.op \in {"rp2350_write_mem8", "rp2350_write_mem16"}
            /\ last'.err = "OK")
        => \A e \in StoresIn(last'.log) :
              (e[2] + e[3] < last'.reg
                  \/ e[2] + e[3] >= last'.reg
                        + (IF last'.op = "rp2350_write_mem8" THEN 1 ELSE 2))
                 => MemByte(chip'.mem, e[2], e[3]) = e[4]]_vars
====
